---- MODULE Spec2Model ----
(***************************************************************************)
(* nox-maps: the log tailer (internal/eqlog), the state engine's consumer  *)
(* loop (internal/parser), the process entry point (cmd/nox-maps), the     *)
(* zone map loader and the zone lookup (internal/maps), of the window     *)
(* (internal/ui) the zone change, the breadcrumbs and the clearing of the  *)
(* corpse marker, and the cleanup tool (cmd/cleanup).                      *)
(*                                                                         *)
(* A log file's content is a byte string, kept run-length encoded: a       *)
(* sequence of runs [s, n], the byte pattern s repeated n times.  Offsets  *)
(* count bytes from 0, as file offsets do.  Every symbol is one byte; the  *)
(* symbol "E" stands for the literal phrase "You have entered " of the     *)
(* zone pattern, "L" for "Your Location is " of the position pattern, and  *)
(* the phrases of the death and recovery rules are one symbol each.        *)
(* Coordinates are decimals kept in hundredths; an angle is kept as the    *)
(* direction it points in.                                                 *)
(* A map file is a sequence of lines, a map directory a set of files; a   *)
(* Go map is a set of <<key, value>> pairs, a nil pointer the empty tuple. *)
(***************************************************************************)
EXTENDS Integers, Sequences, FiniteSets, TLC

\* ------------------------------------------------------------------------
\* Bounds of the model
\* ------------------------------------------------------------------------
\* how many steps the environment (the game client, the user) takes
MaxEnv == 2
\* how many lines the channel holds when the engine starts (SpecEngine): up to
\* MaxLines of the core lines, or up to MaxMixed lines of any kind
MaxLines == 3
MaxMixed == 2
\* how many entries the map directory holds beside the key file (SpecCleanup)
MaxEntries == 3
\* how many files a map directory with layers holds, and how many lines the
\* map file of a directory with one file holds (SpecLoader)
MaxFiles == 2
MaxMapLines == 2
\* how many entries the lookup file holds (SpecLookup)
MaxPairs == 2

\* ------------------------------------------------------------------------
\* Program constants
\* ------------------------------------------------------------------------
\* make(chan LogLine, 1000)
LinesCap == 1000
\* startPos := stat.Size() - 5000
SmartSeek == 5000
\* startPos := stat.Size() - 50000
ZoneScanWindow == 50000
\* bufio.NewReader: the default buffer size of the standard library
BufSize == 4096

NL == "\n"
SP == " "
\* the literal prefix of the zone pattern, "You have entered "
ENTERED == "E"
DOT == "."

Max(a, b) == IF a >= b THEN a ELSE b
Min(a, b) == IF a <= b THEN a ELSE b

\* ------------------------------------------------------------------------
\* Byte strings (run-length encoded)
\* ------------------------------------------------------------------------
Run(s, n) == [s |-> s, n |-> n]
RunLen(r) == Len(r.s) * r.n

RECURSIVE CLen(_)
CLen(c) == IF c = <<>> THEN 0 ELSE RunLen(Head(c)) + CLen(Tail(c))

\* first index >= j of symbol ch in pattern s, 0 when there is none
FirstIdx(s, ch, j) ==
  LET hits == {q \in j..Len(s) : s[q] = ch}
  IN  IF hits = {} THEN 0 ELSE CHOOSE q \in hits : \A p \in hits : q <= p

\* last index of symbol ch in pattern s, 0 when there is none
LastIdx(s, ch) ==
  LET hits == {q \in 1..Len(s) : s[q] = ch}
  IN  IF hits = {} THEN 0 ELSE CHOOSE q \in hits : \A p \in hits : q >= p

\* offset of the first byte ch at or after offset from, -1 when there is none;
\* base is the offset of the first byte of c
RECURSIVE FindFrom(_, _, _, _)
FindFrom(c, ch, from, base) ==
  IF c = <<>> THEN -1
  ELSE LET r == Head(c)
           m == Len(r.s)
           L == RunLen(r)
           a == Max(from - base, 0)
           here == FirstIdx(r.s, ch, (a % m) + 1)
           first == FirstIdx(r.s, ch, 1)
       IN  IF from >= base + L THEN FindFrom(Tail(c), ch, from, base + L)
           ELSE IF here # 0 THEN base + (a \div m) * m + here - 1
           ELSE IF first # 0 /\ (a \div m) + 1 < r.n
                THEN base + ((a \div m) + 1) * m + first - 1
           ELSE FindFrom(Tail(c), ch, from, base + L)

\* offset of the last byte ch of c, -1 when there is none
RECURSIVE FindLast(_, _, _)
FindLast(c, ch, base) ==
  IF c = <<>> THEN -1
  ELSE LET r == Head(c)
           m == Len(r.s)
           L == RunLen(r)
           later == FindLast(Tail(c), ch, base + L)
           last == LastIdx(r.s, ch)
       IN  IF later # -1 THEN later
           ELSE IF last # 0 THEN base + (r.n - 1) * m + last - 1
           ELSE -1

\* the bytes a..z-1 (offsets inside the run) of one run
RunSlice(r, a, z) ==
  LET m == Len(r.s)
      ra == a \div m
      rz == z \div m
      firstFull == IF a % m = 0 THEN ra ELSE ra + 1
  IN  IF a >= z THEN <<>>
      ELSE IF ra = rz THEN << Run(SubSeq(r.s, (a % m) + 1, z % m), 1) >>
      ELSE (IF a % m # 0 THEN << Run(SubSeq(r.s, (a % m) + 1, m), 1) >> ELSE <<>>)
           \o (IF rz > firstFull THEN << Run(r.s, rz - firstFull) >> ELSE <<>>)
           \o (IF z % m # 0 THEN << Run(SubSeq(r.s, 1, z % m), 1) >> ELSE <<>>)

\* the bytes from..to-1 of c
RECURSIVE SliceFrom(_, _, _, _)
SliceFrom(c, from, to, base) ==
  IF c = <<>> \/ base >= to THEN <<>>
  ELSE LET r == Head(c)
           L == RunLen(r)
       IN  RunSlice(r, Max(from, base) - base, Min(to, base + L) - base)
           \o SliceFrom(Tail(c), from, to, base + L)

Slice(c, from, to) == SliceFrom(c, from, to, 0)

IsSpace(ch) == ch \in {SP, NL}

\* number of leading / trailing white-space symbols of a pattern
LeadSpaces(s) ==
  LET non == {q \in 1..Len(s) : ~IsSpace(s[q])}
  IN  IF non = {} THEN Len(s) ELSE (CHOOSE q \in non : \A p \in non : q <= p) - 1

TrailSpaces(s) ==
  LET non == {q \in 1..Len(s) : ~IsSpace(s[q])}
  IN  IF non = {} THEN Len(s) ELSE Len(s) - (CHOOSE q \in non : \A p \in non : q >= p)

RECURSIVE TrimLeft(_)
TrimLeft(c) ==
  IF c = <<>> THEN <<>>
  ELSE LET r == Head(c)
           k == LeadSpaces(r.s)
       IN  IF k = Len(r.s) THEN TrimLeft(Tail(c))
           ELSE IF k = 0 THEN c
           ELSE << Run(SubSeq(r.s, k + 1, Len(r.s)), 1) >>
                \o (IF r.n > 1 THEN << Run(r.s, r.n - 1) >> ELSE <<>>)
                \o Tail(c)

RECURSIVE TrimRight(_)
TrimRight(c) ==
  IF c = <<>> THEN <<>>
  ELSE LET r == c[Len(c)]
           k == TrailSpaces(r.s)
           front == SubSeq(c, 1, Len(c) - 1)
       IN  IF k = Len(r.s) THEN TrimRight(front)
           ELSE IF k = 0 THEN c
           ELSE front
                \o (IF r.n > 1 THEN << Run(r.s, r.n - 1) >> ELSE <<>>)
                \o << Run(SubSeq(r.s, 1, Len(r.s) - k), 1) >>

\* strings.TrimSpace
TrimSpace(c) == TrimRight(TrimLeft(c))

\* append bytes to a byte string (adjacent equal patterns are merged)
Cat(c, d) ==
  IF c = <<>> THEN d
  ELSE IF d = <<>> THEN c
  ELSE IF c[Len(c)].s = d[1].s
       THEN SubSeq(c, 1, Len(c) - 1) \o << Run(d[1].s, c[Len(c)].n + d[1].n) >> \o Tail(d)
  ELSE c \o d


\* ------------------------------------------------------------------------
\* Pure functions of the tailer
\* ------------------------------------------------------------------------
\* regexp `You have entered (.+?)\.`: a capture that ends at the first period
ZoneCaptureLazy(line) ==
  LET e == FindFrom(line, ENTERED, 0, 0)
      d == IF e = -1 THEN -1 ELSE FindFrom(line, DOT, e + 2, 0)
  IN  IF e # -1 /\ d # -1 THEN Slice(line, e + 1, d) ELSE <<>>

\* regexp `You have entered (.+)\.`: leftmost match, greedy capture.  The
\* result is the capture, or <<>> when the line does not match (a capture
\* is never empty, because of the +).
ZoneCapture(line) ==
  LET e == FindFrom(line, ENTERED, 0, 0)
      d == FindLast(line, DOT, 0)
  IN  IF e # -1 /\ d >= e + 2 THEN Slice(line, e + 1, d) ELSE <<>>

\* the scanner loop of detectInitialZone: bufio.Scanner hands out the lines
\* from offset pos to the end of the file (the last one also when it has no
\* newline; no line of the 50000-byte window reaches the scanner's 64KB token
\* limit), and every match overwrites lastZone.  A line without the phrase
\* cannot match, so the loop is taken from one line holding it to the next.
RECURSIVE ScanZones(_, _, _)
ScanZones(c, pos, lastZone) ==
  LET e == FindFrom(c, ENTERED, pos, 0)
      start == pos + FindLast(Slice(c, pos, e), NL, 0) + 1
      nl == FindFrom(c, NL, e, 0)
      stop == IF nl = -1 THEN CLen(c) ELSE nl
      m == ZoneCapture(Slice(c, start, stop))
  IN  IF e = -1 THEN lastZone
      ELSE ScanZones(c, stop + 1, IF m # <<>> THEN m ELSE lastZone)

\* a scan of the whole file
ZoneScanWhole(c) == 0

\* startPos := stat.Size() - 50000; if startPos < 0 { startPos = 0 }
ZoneScanStart(c) == Max(CLen(c) - ZoneScanWindow, 0)

\* a seek to the end of the file
SeekEnd(c) == CLen(c)

\* startPos := stat.Size() - 5000; if startPos < 0 { startPos = 0 }
SmartSeekStart(c) == Max(CLen(c) - SmartSeek, 0)

\* bufio.Reader.ReadString('\n') on a file of content c: r is the offset of the
\* next unread byte, w the offset up to which the file has been read into the
\* buffer (the handle's own offset), closed whether the handle was closed.
\* Returns ok (err == nil), the offset after the bytes returned, and the
\* handle's offset.  On an error the bytes read so far are returned with it:
\* they are consumed.
RECURSIVE ReadString(_, _, _, _)
ReadString(c, r, w, closed) ==
  LET nl == FindFrom(c, NL, r, 0)
      n == Min(CLen(c) - w, BufSize - (w - r))
  IN  IF nl # -1 /\ nl < w THEN [ok |-> TRUE, end |-> nl + 1, w |-> w]
      ELSE IF w - r >= BufSize THEN ReadString(c, w, w, closed)
      ELSE IF closed \/ n = 0 THEN [ok |-> FALSE, end |-> w, w |-> w]
      ELSE ReadString(c, r, w + n, closed)


\* ------------------------------------------------------------------------
\* The directory tree under EqDir
\* ------------------------------------------------------------------------
\* A: EqDir/eqlog_A.txt   B: EqDir/eqlog_B.txt   C: EqDir/Logs/eqlog_C.txt
\* N: EqDir/notes.txt
Paths == {"A", "B", "C", "N"}
NoPath == ""

DirOf(p) == IF p = "C" THEN "Logs" ELSE "root"
NameOf(p) ==
  CASE p = "A" -> <<"eqlog", "_A", ".txt">>
    [] p = "B" -> <<"eqlog", "_B", ".txt">>
    [] p = "C" -> <<"eqlog", "_C", ".txt">>
    [] OTHER   -> <<"notes", ".txt">>

\* the log lines of the examples
ZoneLine(z) == Run(<<ENTERED, z, DOT, NL>>, 1)
cEmpty == <<>>
\* two zone lines, a padded line and a blank line in between
cSmall == << ZoneLine("a"), Run(<<SP, "x", SP, NL>>, 1), Run(<<SP, NL>>, 1), ZoneLine("b") >>
\* longer than the 5000-byte window of the smart seek
cBig   == << ZoneLine("b"), Run(<<"x">>, 6000), Run(<<NL>>, 1), ZoneLine("a"),
             Run(<<"x", NL>>, 2) >>
\* longer than the 50000-byte window of the zone scan
cHuge  == << ZoneLine("a"), Run(<<"x">>, 60000), Run(<<NL>>, 1) >>
\* a burst of more lines than the channel holds
cBurst == << Run(<<"x", NL>>, LinesCap + 1) >>

\* what the game client appends in one write
Chunks == { << Run(<<"x">>, 1) >>, << Run(<<NL>>, 1) >> }

VARIABLES
  status,       \* path -> "absent" (not created yet), "present", "removed"
  mtime,        \* path -> modification time
  content,      \* path -> bytes of the file (kept for open handles once removed)
  readable,     \* path -> whether os.Open succeeds
  envLeft,      \* steps the environment may still take
  EQPath,       \* cfg.EQPath != ""
  mpc,          \* main: "start", "detect", "go", "started", "ui"
  crashed,      \* the process died of a panic
  Lines,        \* Reader.Lines: the channel's content, oldest first
  InitialZone,  \* Reader.InitialZone (<<>>: "")
  tpc,          \* pollAndRead: "idle" (not started), "check", "sort", "read", "push"
  currentPath,  \* pollAndRead: currentPath
  file,         \* pollAndRead: file (nil, or the path it was opened on and whether it was closed)
  hasReader,    \* pollAndRead: reader != nil
  rpos,         \* reader: offset of the next unread byte
  wpos,         \* reader: offset up to which the file was read into its buffer
  logs,         \* findLatestLog: logs
  cleanLine,    \* pollAndRead: the LogLine about to be sent
  gen,          \* how many files pollAndRead has opened
  openOff,      \* the startPos of the file open now
  openSize,     \* the size that file had when it was opened
  epc,          \* ProcessLines: "idle" (not started), "seed", "recv", "storeY"
  Zone,         \* Engine.CurrentState.Zone (<<>>: "")
  got,          \* the line ProcessLines received last
  X, Y, Z,      \* Engine.CurrentState.X, .Y, .Z (in hundredths)
  Heading,      \* Engine.CurrentState.Heading (an angle, see Atan2)
  CorpseX,      \* Engine.CurrentState.CorpseX
  CorpseY,      \* Engine.CurrentState.CorpseY
  CorpseZone,   \* Engine.CurrentState.CorpseZone
  HasCorpse,    \* Engine.CurrentState.HasCorpse
  lastX, lastY, \* ProcessLines: lastX, lastY
  hasMoved,     \* ProcessLines: hasMoved
  mapFiles,     \* the map directory: a set of files [name, lines, readable]
  zoneCfg,      \* the zone lookup file: [pairs, readable]
  ZoneFileMap,  \* maps.ZoneFileMap: a set of <<key, value>>, one per key
  CurrentZone,  \* Window.CurrentZone (<<>>: "")
  MapData,      \* Window.MapData (<<>>: nil, <<zm>>: a pointer to zm)
  lastKKey,     \* Window.lastKKey
  loads,        \* how often loadMapForZone has printed "Loading zone"
  Breadcrumbs,  \* Window.Breadcrumbs: a sequence of <<X, Y>>
  upc,          \* Update: "keys", "dx", "dy", "x", "y", "zone" (what it does next)
  bcX,          \* Update: the X it has read for the breadcrumb section
  ret,          \* what the last call of a function of package maps returned
  prev          \* what the call before it returned

fsVars   == <<status, mtime, content, readable, envLeft>>
mainVars == <<EQPath, mpc>>
tailVars == <<tpc, currentPath, file, hasReader, rpos, wpos, cleanLine, gen, openOff,
              openSize>>
posVars  == <<X, Y, Z, Heading, CorpseX, CorpseY, CorpseZone, HasCorpse, lastX, lastY,
              hasMoved>>
engVars  == <<epc, Zone, got, posVars>>
uiVars   == <<CurrentZone, MapData, lastKKey, loads, Breadcrumbs, upc, bcX>>
mapVars  == <<mapFiles, zoneCfg, ZoneFileMap, ret, prev>>
winVars  == <<uiVars, mapVars>>
vars == <<status, mtime, content, readable, envLeft, EQPath, mpc, crashed, Lines,
          InitialZone, tpc, currentPath, file, hasReader, rpos, wpos, logs, cleanLine,
          gen, openOff, openSize, epc, Zone, got, X, Y, Z, Heading, CorpseX, CorpseY,
          CorpseZone, HasCorpse, lastX, lastY, hasMoved, mapFiles, zoneCfg, ZoneFileMap,
          CurrentZone, MapData, lastKKey, loads, Breadcrumbs, upc, bcX, ret, prev>>

NoFile == [path |-> NoPath, closed |-> TRUE]
NoLine == [line |-> <<>>, src |-> NoPath, gen |-> 0, off |-> 0]
\* no zone lookup file, and no call made yet
NoCfg == [pairs |-> <<>>, lines |-> <<>>, readable |-> FALSE, valid |-> FALSE]
NoRet == [fn |-> "none"]

\* package maps and the window when the process starts
WindowInit0 ==
  /\ ZoneFileMap = {}
  /\ CurrentZone = <<>> /\ MapData = <<>> /\ lastKKey = FALSE /\ loads = 0
  /\ Breadcrumbs = <<>> /\ upc = "keys" /\ bcX = 0
  /\ ret = NoRet /\ prev = NoRet

\* an empty map directory and no lookup file
NoMaps == mapFiles = {} /\ zoneCfg = NoCfg

\* ------------------------------------------------------------------------
\* The channel: consecutive sends of the same text from equally spaced
\* offsets of one file are kept as one run of n LogLines
\* ------------------------------------------------------------------------
RECURSIVE QLen(_)
QLen(q) == IF q = <<>> THEN 0 ELSE Head(q).n + QLen(Tail(q))

QRun(e, stride, n) ==
  [line |-> e.line, src |-> e.src, gen |-> e.gen, off |-> e.off, stride |-> stride, n |-> n]

QElem(r, i) == [line |-> r.line, src |-> r.src, gen |-> r.gen, off |-> r.off + i * r.stride]

\* r.Lines <- e
QSend(q, e) ==
  IF q = <<>> THEN << QRun(e, 0, 1) >>
  ELSE LET r == q[Len(q)]
           same == r.line = e.line /\ r.src = e.src /\ r.gen = e.gen /\ e.off > r.off
       IN  IF same /\ r.n = 1
             THEN SubSeq(q, 1, Len(q) - 1) \o << QRun(r, e.off - r.off, 2) >>
           ELSE IF same /\ e.off = r.off + r.n * r.stride
             THEN SubSeq(q, 1, Len(q) - 1) \o << QRun(r, r.stride, r.n + 1) >>
           ELSE q \o << QRun(e, 0, 1) >>

\* a receive that takes the line sent last
QFirstNewest(q) == QElem(q[Len(q)], q[Len(q)].n - 1)

\* the LogLine a receive takes, and the channel after it
QFirst(q) == QElem(Head(q), 0)
QRest(q) ==
  LET r == Head(q)
  IN  IF r.n = 1 THEN Tail(q)
      ELSE << QRun(QElem(r, 1), IF r.n = 2 THEN 0 ELSE r.stride, r.n - 1) >> \o Tail(q)


\* ------------------------------------------------------------------------
\* findLatestLog
\* ------------------------------------------------------------------------
\* strings.HasPrefix(f.Name(), "eqlog") && strings.HasSuffix(f.Name(), ".txt")
IsLogName(name) == name[1] = "eqlog" /\ name[Len(name)] = ".txt"

\* scanDir: the entries of one directory that carry a log's name
scanDir(dir) ==
  {p \in Paths : status[p] = "present" /\ DirOf(p) = dir /\ IsLogName(NameOf(p))}

\* the root and the Logs subdirectory together
ScanBoth == scanDir("root") \cup scanDir("Logs")

\* the root first, the Logs subdirectory when the root has none
ScanLogs == IF scanDir("root") # {} THEN scanDir("root") ELSE scanDir("Logs")

\* the comparison function calls os.Stat and uses the FileInfo unchecked: with
\* two or more entries every entry is compared, and one that is gone by then
\* makes fi nil
SortPanics(ls) == Cardinality(ls) >= 2 /\ \E p \in ls : status[p] # "present"

\* os.ReadDir lists by file name
NameRank(p) == CASE p = "A" -> 1 [] p = "B" -> 2 [] p = "C" -> 3 [] OTHER -> 4

\* logs[0] after the sort: the entry modified first
OldestOf(ls) ==
  CHOOSE p \in ls : \A q \in ls :
    mtime[p] < mtime[q] \/ (mtime[q] = mtime[p] /\ NameRank(p) <= NameRank(q))

\* logs[len(logs)-1] after sort.Slice by ModTime: a slice this short is sorted
\* by insertion, which keeps entries of equal time in listing order
LatestOf(ls) ==
  CHOOSE p \in ls : \A q \in ls :
    mtime[q] < mtime[p] \/ (mtime[q] = mtime[p] /\ NameRank(q) <= NameRank(p))

\* os.Open succeeds
CanOpen(p) == status[p] = "present" /\ readable[p]

\* ------------------------------------------------------------------------
\* main and Reader.Start
\* ------------------------------------------------------------------------
\* main up to the directory listing of detectInitialZone's findLatestLog
MainStart ==
  /\ mpc = "start" /\ ~crashed
  /\ IF ~EQPath THEN mpc' = "ui" /\ logs' = logs
     ELSE IF ScanLogs = {} THEN mpc' = "go" /\ logs' = logs
     ELSE mpc' = "detect" /\ logs' = ScanLogs
  /\ UNCHANGED <<winVars, fsVars, EQPath, crashed, Lines, InitialZone, tailVars, engVars>>

\* detectInitialZone from the sort on
MainDetect ==
  /\ mpc = "detect" /\ ~crashed
  /\ IF SortPanics(logs)
       THEN crashed' = TRUE /\ UNCHANGED <<mpc, InitialZone, logs>>
       ELSE LET logPath == LatestOf(logs)
                c == content[logPath]
                lastZone == ScanZones(c, ZoneScanStart(c), <<>>)
            IN  /\ InitialZone' = IF CanOpen(logPath) /\ lastZone # <<>>
                                    THEN lastZone ELSE InitialZone
                /\ mpc' = "go" /\ logs' = {} /\ crashed' = crashed
  /\ UNCHANGED <<winVars, fsVars, EQPath, Lines, tailVars, engVars>>

\* go r.pollAndRead(); return nil
MainGoTailer ==
  /\ mpc = "go" /\ ~crashed
  /\ mpc' = "started" /\ tpc' = "check"
  /\ UNCHANGED <<winVars, fsVars, EQPath, crashed, Lines, InitialZone, currentPath, file, hasReader,
                 rpos, wpos, logs, cleanLine, gen, openOff, openSize, engVars>>

\* go engine.ProcessLines(reader, reader.Lines)
MainGoEngine ==
  /\ mpc = "started" /\ ~crashed
  /\ mpc' = "ui" /\ epc' = "seed"
  /\ UNCHANGED <<winVars, fsVars, EQPath, crashed, Lines, InitialZone, tailVars, logs, Zone, got, posVars>>

\* ------------------------------------------------------------------------
\* Reader.pollAndRead
\* ------------------------------------------------------------------------
\* top of the loop: when the 3 seconds are over, findLatestLog lists the directory
TCheck ==
  /\ tpc = "check" /\ ~crashed
  /\ \E expired \in BOOLEAN :
       IF expired /\ ScanLogs # {} THEN tpc' = "sort" /\ logs' = ScanLogs
       ELSE tpc' = "read" /\ logs' = logs
  /\ UNCHANGED <<winVars, fsVars, mainVars, crashed, Lines, InitialZone, currentPath, file, hasReader,
                 rpos, wpos, cleanLine, gen, openOff, openSize, engVars>>

\* a poll tick that opens the latest log anew whether or not it is the open one
TSortReopen ==
  /\ tpc = "sort" /\ ~crashed
  /\ IF SortPanics(logs)
       THEN /\ crashed' = TRUE
            /\ UNCHANGED <<tpc, logs, currentPath, file, hasReader, rpos, wpos, gen, openOff,
                           openSize>>
       ELSE LET latestPath == LatestOf(logs)
                startPos == SmartSeekStart(content[latestPath])
            IN  /\ tpc' = "read" /\ logs' = {} /\ crashed' = crashed
                /\ IF CanOpen(latestPath)
                     THEN /\ file' = [path |-> latestPath, closed |-> FALSE]
                          /\ currentPath' = latestPath
                          /\ hasReader' = TRUE
                          /\ rpos' = startPos /\ wpos' = startPos
                          /\ gen' = gen + 1 /\ openOff' = startPos
                          /\ openSize' = CLen(content[latestPath])
                   ELSE /\ file' = IF file = NoFile THEN file ELSE [file EXCEPT !.closed = TRUE]
                        /\ UNCHANGED <<currentPath, hasReader, rpos, wpos, gen, openOff, openSize>>
  /\ UNCHANGED <<winVars, fsVars, mainVars, Lines, InitialZone, cleanLine, engVars>>

\* the sort of findLatestLog and the character switch
TSort ==
  /\ tpc = "sort" /\ ~crashed
  /\ IF SortPanics(logs)
       THEN /\ crashed' = TRUE
            /\ UNCHANGED <<tpc, logs, currentPath, file, hasReader, rpos, wpos, gen, openOff,
                           openSize>>
       ELSE LET latestPath == LatestOf(logs)
                startPos == SmartSeekStart(content[latestPath])
            IN  /\ tpc' = "read" /\ logs' = {} /\ crashed' = crashed
                /\ IF latestPath = currentPath
                     THEN UNCHANGED <<currentPath, file, hasReader, rpos, wpos, gen, openOff,
                                      openSize>>
                   ELSE IF CanOpen(latestPath)
                     THEN /\ file' = [path |-> latestPath, closed |-> FALSE]
                          /\ currentPath' = latestPath
                          /\ hasReader' = TRUE
                          /\ rpos' = startPos /\ wpos' = startPos
                          /\ gen' = gen + 1 /\ openOff' = startPos
                          /\ openSize' = CLen(content[latestPath])
                   ELSE /\ file' = IF file = NoFile THEN file ELSE [file EXCEPT !.closed = TRUE]
                        /\ UNCHANGED <<currentPath, hasReader, rpos, wpos, gen, openOff, openSize>>
  /\ UNCHANGED <<winVars, fsVars, mainVars, Lines, InitialZone, cleanLine, engVars>>

\* the read loop: one ReadString, or the sleep when no reader is open
TRead ==
  /\ tpc = "read" /\ ~crashed
  /\ IF ~hasReader THEN tpc' = "check" /\ UNCHANGED <<rpos, wpos, cleanLine>>
     ELSE LET c == content[file.path]
              rd == ReadString(c, rpos, wpos, file.closed)
              clean == TrimSpace(Slice(c, rpos, rd.end))
          IN  /\ rpos' = rd.end /\ wpos' = rd.w
              /\ IF rd.ok /\ clean # <<>>
                   THEN /\ tpc' = "push"
                        /\ cleanLine' = [line |-> clean, src |-> file.path, gen |-> gen,
                                         off |-> rpos]
                   ELSE tpc' = "check" /\ cleanLine' = cleanLine
  /\ UNCHANGED <<winVars, fsVars, mainVars, crashed, Lines, InitialZone, currentPath, file, hasReader,
                 logs, gen, openOff, openSize, engVars>>

\* a send that gives up when the channel is full (select with a default case)
TPushDrop ==
  /\ tpc = "push" /\ ~crashed
  /\ Lines' = IF QLen(Lines) < LinesCap THEN QSend(Lines, cleanLine) ELSE Lines
  /\ cleanLine' = NoLine
  /\ tpc' = "check"
  /\ UNCHANGED <<winVars, fsVars, mainVars, crashed, InitialZone, currentPath, file, hasReader, rpos,
                 wpos, logs, gen, openOff, openSize, engVars>>

\* r.Lines <- LogLine{...}: blocks while the channel is full
TPush ==
  /\ tpc = "push" /\ ~crashed
  /\ QLen(Lines) < LinesCap
  /\ Lines' = QSend(Lines, cleanLine)
  /\ cleanLine' = NoLine
  /\ tpc' = "check"
  /\ UNCHANGED <<winVars, fsVars, mainVars, crashed, InitialZone, currentPath, file, hasReader, rpos,
                 wpos, logs, gen, openOff, openSize, engVars>>

\* ------------------------------------------------------------------------
\* Engine.ProcessLines
\* ------------------------------------------------------------------------
PVP == "(PvP)"
AREA == " area"

\* a zone rule without the filter
NeverStatus(z) == FALSE

\* strings.Contains(newZone, "(PvP)") || strings.HasSuffix(newZone, " area")
IsStatusText(z) ==
  \/ FindFrom(z, PVP, 0, 0) # -1
  \/ z # <<>> /\ LET s == z[Len(z)].s IN s[Len(s)] = AREA

\* rule 2 of the loop body: the zone after a line
ZoneAfter(line, zone) ==
  LET newZone == ZoneCapture(line)
  IN  IF newZone # <<>> /\ ~IsStatusText(newZone) THEN newZone ELSE zone

\* the literal prefix of the position pattern, "Your Location is "
LOCATION == "L"
\* the literal ", " between the numbers of the position pattern
COMMA == ", "
MINUS == "-"
SLAIN == "You have been slain"
SUMMONING == "Summoning"
CORPSE == "corpse"
DECAYS == " decays"
RESURRECTION == "You receive a resurrection"
RESURRECTED == "You have been resurrected"

\* math.Abs(dx) > 0.1: the limit, in hundredths
JitterLimit == 10
\* dist > 50: the distance, in hundredths, beyond which a breadcrumb is added
CrumbStep == 5000
\* len(w.Breadcrumbs) > 500
CrumbCap == 500

DigitChars == <<"0", "1", "2", "3", "4", "5", "6", "7", "8", "9">>
IsDigit(ch) == \E d \in 1..10 : DigitChars[d] = ch
DigitVal(ch) == (CHOOSE d \in 1..10 : DigitChars[d] = ch) - 1
\* the character class [0-9.-]
IsNumChar(ch) == IsDigit(ch) \/ ch = DOT \/ ch = MINUS

\* the byte at offset i of c
At(c, i) == Slice(c, i, i + 1)[1].s[1]

\* the bytes a..z-1 of c as one string
Tok(c, a, z) == [k \in 1..(z - a) |-> At(c, a + k - 1)]

\* where the longest run of [0-9.-] that starts at offset i ends
RECURSIVE NumEnd(_, _)
NumEnd(c, i) == IF i >= CLen(c) \/ ~IsNumChar(At(c, i)) THEN i ELSE NumEnd(c, i + 1)

\* the position pattern tried at the occurrence of its prefix at offset i:
\* ([0-9.-]+), ([0-9.-]+), ([0-9.-]+).  A group takes the longest run there is
\* (a shorter one would be followed by a character of the class, not by ", ").
\* The result is the three captures, or <<>> when there is no match here.
LocMatchAt(c, i) ==
  LET e1 == NumEnd(c, i + 1)
      e2 == NumEnd(c, e1 + 1)
      e3 == NumEnd(c, e2 + 1)
  IN  IF /\ e1 > i + 1 /\ e1 < CLen(c) /\ At(c, e1) = COMMA
         /\ e2 > e1 + 1 /\ e2 < CLen(c) /\ At(c, e2) = COMMA
         /\ e3 > e2 + 1
        THEN << Tok(c, i + 1, e1), Tok(c, e1 + 1, e2), Tok(c, e2 + 1, e3) >>
        ELSE <<>>

\* locRegex.FindStringSubmatch: the leftmost match
RECURSIVE LocCapture(_, _)
LocCapture(c, from) ==
  LET i == FindFrom(c, LOCATION, from, 0)
  IN  IF i = -1 THEN <<>>
      ELSE IF LocMatchAt(c, i) # <<>> THEN LocMatchAt(c, i)
      ELSE LocCapture(c, i + 1)

RECURSIVE DecVal(_)
DecVal(ds) ==
  IF ds = <<>> THEN 0 ELSE DecVal(SubSeq(ds, 1, Len(ds) - 1)) * 10 + DigitVal(ds[Len(ds)])

\* strconv.ParseFloat(tok, 64) with the error dropped, for a string of the
\* class [0-9.-]: an optional sign, digits with at most one point, at least one
\* digit; anything else is a syntax error, for which ParseFloat returns 0.
\* Values are kept in hundredths (the lines of the model carry at most two
\* decimals).
ParseFloat(tok) ==
  LET neg == tok # <<>> /\ tok[1] = MINUS
      body == IF neg THEN Tail(tok) ELSE tok
      dots == {k \in 1..Len(body) : body[k] = DOT}
      valid == /\ \A k \in 1..Len(body) : body[k] # MINUS
               /\ Cardinality(dots) <= 1
               /\ \E k \in 1..Len(body) : IsDigit(body[k])
      p == IF dots = {} THEN Len(body) + 1 ELSE CHOOSE k \in dots : TRUE
      frac == SubSeq(body, p + 1, Len(body))
      f1 == IF Len(frac) >= 1 THEN DigitVal(frac[1]) ELSE 0
      f2 == IF Len(frac) >= 2 THEN DigitVal(frac[2]) ELSE 0
      value == DecVal(SubSeq(body, 1, p - 1)) * 100 + f1 * 10 + f2
  IN  IF ~valid THEN 0 ELSE IF neg THEN 0 - value ELSE value

Abs(v) == IF v < 0 THEN 0 - v ELSE v

RECURSIVE GCD(_, _)
GCD(a, b) == IF b = 0 THEN a ELSE GCD(b, a % b)

\* math.Atan2(dx, dy): the arguments the wrong way round
Atan2Swapped(dy, dx) ==
  LET g == GCD(Abs(dy), Abs(dx))
  IN  IF g = 0 THEN <<0, 1>> ELSE <<dx \div g, dy \div g>>

\* math.Atan2(dy, dx).  An angle is kept as the direction it points in: the
\* vector (dy, dx) reduced by its greatest common divisor, so that two
\* displacements give the same angle exactly when they point the same way.
\* The angle 0 is <<0, 1>>, which is also Atan2(0, 0).
Atan2(dy, dx) ==
  LET g == GCD(Abs(dy), Abs(dx))
  IN  IF g = 0 THEN <<0, 1>> ELSE <<dy \div g, dx \div g>>

\* the zero value of a float64 angle
Angle0 == Atan2(0, 1)

\* x := -eqX with the sign kept
Same(v) == v

\* x := -eqX
Neg(v) == 0 - v

\* a limit that lets every displacement through
MovedAtAll(dx, dy) == dx # 0 \/ dy # 0

\* math.Abs(dx) > 0.1 || math.Abs(dy) > 0.1
Moved(dx, dy) == Abs(dx) > JitterLimit \/ Abs(dy) > JitterLimit

\* whether the string needle starts at offset i of c
HasAt(c, needle, i) ==
  /\ i + Len(needle) <= CLen(c)
  /\ \A k \in 1..Len(needle) : At(c, i + k - 1) = needle[k]

\* strings.Contains(c, needle), looked for from offset from on
RECURSIVE ContainsFrom(_, _, _)
ContainsFrom(c, needle, from) ==
  LET i == FindFrom(c, needle[1], from, 0)
  IN  IF i = -1 THEN FALSE
      ELSE IF HasAt(c, needle, i) THEN TRUE
      ELSE ContainsFrom(c, needle, i + 1)

Contains(c, needle) == ContainsFrom(c, needle, 0)

\* the recovery rule of the first version of the parser
IsRecoveryOld(line) == Contains(line, <<"You summon your ", CORPSE>>)

\* an engine for which every line is a recovery
IsRecoveryAlways(line) == TRUE

\* the condition of rule 4
IsRecovery(line) ==
  \/ Contains(line, <<SUMMONING>>) /\ Contains(line, <<CORPSE>>)
  \/ Contains(line, <<RESURRECTION>>)
  \/ Contains(line, <<RESURRECTED>>)
  \/ Contains(line, <<CORPSE, DECAYS>>)

\* rule 1: a position line with the captures loc
Position(st, loc) ==
  LET eqY == ParseFloat(loc[1])
      eqX == ParseFloat(loc[2])
      eqZ == ParseFloat(loc[3])
      x == Neg(eqX)
      y == Neg(eqY)
      dx == x - st.lastX
      dy == y - st.lastY
  IN  [st EXCEPT !.Heading = IF st.hasMoved /\ Moved(dx, dy) THEN Atan2(dy, dx) ELSE @,
                 !.hasMoved = TRUE,
                 !.X = x, !.Y = y, !.Z = eqZ, !.lastX = x, !.lastY = y]

\* a death that is recorded only when no corpse is marked yet
DeathOnce(st) ==
  IF st.HasCorpse THEN st
  ELSE [st EXCEPT !.CorpseX = st.X, !.CorpseY = st.Y, !.CorpseZone = st.Zone,
                  !.HasCorpse = TRUE]

\* rule 3
Death(st) ==
  [st EXCEPT !.CorpseX = st.X, !.CorpseY = st.Y, !.CorpseZone = st.Zone, !.HasCorpse = TRUE]

\* a loop body without the continue statements: every rule is tried on every line
ProcessLineAll(st, line) ==
  LET s1 == IF LocCapture(line, 0) # <<>> THEN Position(st, LocCapture(line, 0)) ELSE st
      s2 == IF ZoneCapture(line) # <<>> THEN [s1 EXCEPT !.Zone = ZoneAfter(line, @)] ELSE s1
      s3 == IF Contains(line, <<SLAIN>>) THEN Death(s2) ELSE s2
  IN  IF IsRecovery(line) THEN [s3 EXCEPT !.HasCorpse = FALSE] ELSE s3

\* the loop body: the first rule that matches the line is applied
ProcessLine(st, line) ==
  IF LocCapture(line, 0) # <<>> THEN Position(st, LocCapture(line, 0))
  ELSE IF ZoneCapture(line) # <<>> THEN [st EXCEPT !.Zone = ZoneAfter(line, @)]
  ELSE IF Contains(line, <<SLAIN>>) THEN Death(st)
  ELSE IF IsRecovery(line) THEN [st EXCEPT !.HasCorpse = FALSE]
  ELSE st

\* Engine.CurrentState and the locals of ProcessLines
EngineState ==
  [X |-> X, Y |-> Y, Z |-> Z, Heading |-> Heading, Zone |-> Zone, CorpseX |-> CorpseX,
   CorpseY |-> CorpseY, CorpseZone |-> CorpseZone, HasCorpse |-> HasCorpse,
   lastX |-> lastX, lastY |-> lastY, hasMoved |-> hasMoved]

\* an engine that starts without looking at the reader's initial zone
EngineSeedSkip ==
  /\ epc = "seed" /\ ~crashed
  /\ Zone' = Zone
  /\ epc' = "recv"
  /\ UNCHANGED <<winVars, fsVars, mainVars, crashed, Lines, InitialZone, tailVars, logs, got, posVars>>

\* the statements before the loop
EngineSeed ==
  /\ epc = "seed" /\ ~crashed
  /\ Zone' = IF InitialZone # <<>> THEN InitialZone ELSE Zone
  /\ epc' = "recv"
  /\ UNCHANGED <<winVars, fsVars, mainVars, crashed, Lines, InitialZone, tailVars, logs, got, posVars>>

\* one turn of the loop: receive a LogLine and classify it
EngineRecv ==
  /\ epc = "recv" /\ ~crashed
  /\ Lines # <<>>
  /\ Lines' = QRest(Lines)
  /\ \E st \in {ProcessLine(EngineState, QFirst(Lines).line)} :
         /\ X' = st.X /\ Y' = st.Y /\ Z' = st.Z /\ Heading' = st.Heading
         /\ Zone' = st.Zone
         /\ CorpseX' = st.CorpseX /\ CorpseY' = st.CorpseY
         /\ CorpseZone' = st.CorpseZone /\ HasCorpse' = st.HasCorpse
         /\ lastX' = st.lastX /\ lastY' = st.lastY /\ hasMoved' = st.hasMoved
  /\ got' = QFirst(Lines)
  /\ UNCHANGED <<winVars, fsVars, mainVars, crashed, InitialZone, tailVars, logs, epc>>

\* ------------------------------------------------------------------------
\* The environment: the game client and the user
\* ------------------------------------------------------------------------
RECURSIVE MaxOf(_)
MaxOf(S) == IF S = {} THEN 0
            ELSE LET x == CHOOSE y \in S : TRUE IN Max(x, MaxOf(S \ {x}))

NewestTime == MaxOf({mtime[p] : p \in Paths})

EnvAppend(p, bytes) ==
  /\ envLeft > 0 /\ status[p] = "present"
  /\ content' = [content EXCEPT ![p] = Cat(@, bytes)]
  /\ mtime' = [mtime EXCEPT ![p] = NewestTime + 1]
  /\ envLeft' = envLeft - 1
  /\ UNCHANGED <<winVars, status, readable, mainVars, crashed, Lines, InitialZone, tailVars, logs,
                 engVars>>

EnvCreate(p) ==
  /\ envLeft > 0 /\ status[p] = "absent"
  /\ status' = [status EXCEPT ![p] = "present"]
  /\ mtime' = [mtime EXCEPT ![p] = NewestTime + 1]
  /\ envLeft' = envLeft - 1
  /\ UNCHANGED <<winVars, content, readable, mainVars, crashed, Lines, InitialZone, tailVars, logs,
                 engVars>>

EnvRemove(p) ==
  /\ envLeft > 0 /\ status[p] = "present"
  /\ status' = [status EXCEPT ![p] = "removed"]
  /\ envLeft' = envLeft - 1
  /\ UNCHANGED <<winVars, mtime, content, readable, mainVars, crashed, Lines, InitialZone, tailVars,
                 logs, engVars>>

EnvChmod(p) ==
  /\ envLeft > 0 /\ status[p] = "present"
  /\ readable' = [readable EXCEPT ![p] = ~@]
  /\ envLeft' = envLeft - 1
  /\ UNCHANGED <<winVars, status, mtime, content, mainVars, crashed, Lines, InitialZone, tailVars,
                 logs, engVars>>

LogPaths == {"A", "B", "C"}
\* the logs the environment acts on
Written == {"A", "B"}

Env ==
  \/ \E p \in Written, bytes \in Chunks : EnvAppend(p, bytes)
  \/ \E p \in Written : EnvCreate(p)
  \/ \E p \in Written : EnvRemove(p)
  \/ \E p \in Written : EnvChmod(p)

Program ==
  \/ MainStart \/ MainDetect \/ MainGoTailer \/ MainGoEngine
  \/ TCheck \/ TSort \/ TRead \/ TPush
  \/ EngineSeed \/ EngineRecv

ProgramInit ==
  /\ mpc = "start" /\ crashed = FALSE
  /\ Lines = <<>> /\ InitialZone = <<>>
  /\ tpc = "idle" /\ currentPath = NoPath /\ file = NoFile /\ hasReader = FALSE
  /\ rpos = 0 /\ wpos = 0 /\ logs = {} /\ cleanLine = NoLine /\ gen = 0 /\ openOff = 0
  /\ openSize = 0
  /\ epc = "idle" /\ Zone = <<>> /\ got = NoLine
  /\ X = 0 /\ Y = 0 /\ Z = 0 /\ Heading = Angle0
  /\ CorpseX = 0 /\ CorpseY = 0 /\ CorpseZone = <<>> /\ HasCorpse = FALSE
  /\ lastX = 0 /\ lastY = 0 /\ hasMoved = FALSE
  /\ WindowInit0

\* the file systems the program may be started on
Init ==
  /\ ProgramInit /\ NoMaps
  /\ EQPath \in BOOLEAN
  /\ envLeft = MaxEnv
  /\ status \in [Paths -> {"present", "absent"}] /\ status["N"] = "present"
  /\ ~EQPath => \A p \in LogPaths : status[p] = "absent"
  /\ mtime \in [Paths -> 0..3]
  /\ mtime["A"] = 1 /\ mtime["C"] = 2 /\ mtime["N"] = 3
  /\ mtime["B"] \in (IF status["B"] = "present" THEN {0, 1} ELSE {0})
  /\ readable = [p \in Paths |-> TRUE]
  /\ content \in [Paths -> {cEmpty, cSmall, cBig, cHuge}]
  /\ content["A"] \in (IF status["A"] = "present" THEN {cSmall, cBig} ELSE {cEmpty})
  /\ content["B"] = (IF status["B"] = "present" THEN cHuge ELSE cEmpty)
  /\ content["C"] = (IF status["C"] = "present" THEN cSmall ELSE cEmpty)
  /\ content["N"] = cEmpty

Next == Program \/ Env

Spec == Init /\ [][Next]_vars

\* a log that already holds a burst of lines, and a quiet environment
InitBurst ==
  /\ ProgramInit /\ NoMaps
  /\ EQPath = TRUE
  /\ envLeft = 0
  /\ status = [p \in Paths |-> IF p \in {"A", "N"} THEN "present" ELSE "absent"]
  /\ mtime = [p \in Paths |-> 1]
  /\ readable = [p \in Paths |-> TRUE]
  /\ content = [p \in Paths |-> IF p = "A" THEN cBurst ELSE cEmpty]

SpecBurst == InitBurst /\ [][Program]_vars

\* a line as a byte string
Str(s) == << Run(s, 1) >>

\* the decimal digits of a natural number
RECURSIVE FmtNat(_)
FmtNat(n) == IF n < 10 THEN << DigitChars[n + 1] >>
             ELSE FmtNat(n \div 10) \o << DigitChars[(n % 10) + 1] >>

\* a number of hundredths as the game prints it: -5.1, 20, 0.25
Fmt(v) ==
  LET a == IF v < 0 THEN 0 - v ELSE v
      f == a % 100
  IN  (IF v < 0 THEN <<MINUS>> ELSE <<>>)
      \o FmtNat(a \div 100)
      \o (IF f = 0 THEN <<>>
          ELSE IF f % 10 = 0 THEN << DOT, DigitChars[(f \div 10) + 1] >>
          ELSE << DOT, DigitChars[(f \div 10) + 1], DigitChars[(f % 10) + 1] >>)

\* "Your Location is a, b, c"
LocLine(a, b, c) == Str(<<LOCATION>> \o Fmt(a) \o <<COMMA>> \o Fmt(b) \o <<COMMA>> \o Fmt(c))

\* the /loc reports of the examples, as (a, b, c) in hundredths
Locs == { <<0, 0, 0>>, <<-500, -500, 300>>, <<-510, -500, -25>>, <<1000, 2000, 300>> }
LocLines == { LocLine(l[1], l[2], l[3]) : l \in Locs }

\* "You have entered a." and "You have entered b."
ZoneNames == {"a", "b"}
EnteredLines == { Str(<<ENTERED, z, DOT>>) : z \in ZoneNames }

\* "You have entered an Arena (PvP) area." and two more status annotations
StatusTexts == { <<"an Arena ", PVP, AREA>>, <<"b", AREA>>, <<PVP, "b">> }
StatusLines == { Str(<<ENTERED>> \o s \o <<DOT>>) : s \in StatusTexts }

\* "You have entered a. b."
TwoDotLine == Str(<<ENTERED, "a", DOT, "b", DOT>>)

\* "You have been slain by x"
SlainLine == Str(<<SLAIN, "x">>)

\* lines that fit more than one rule
LocSlainLine == Str(<<LOCATION, "1", COMMA, "2", COMMA, "3", SLAIN>>)
SlainEnteredLine == Str(<<SLAIN, ENTERED, "a", DOT>>)
SlainStatusLine == Str(<<SLAIN, ENTERED, "b", AREA, DOT>>)
SlainResurrectedLine == Str(<<SLAIN, RESURRECTED>>)
MixedLines == {LocSlainLine, SlainEnteredLine, SlainStatusLine, SlainResurrectedLine}

\* the recovery messages
RecoveryLines ==
  { Str(<<SUMMONING, " your ", CORPSE>>), Str(<<RESURRECTION>>), Str(<<RESURRECTED>>),
    Str(<<"Your ", CORPSE, DECAYS>>) }

\* "You summon your corpse"
SummonLine == Str(<<"You summon your ", CORPSE>>)

\* a line no rule fits
ChatLine == Str(<<"x">>)

EngineLines ==
  LocLines \cup EnteredLines \cup StatusLines \cup {TwoDotLine, SlainLine} \cup MixedLines
  \cup RecoveryLines \cup {SummonLine, ChatLine}

\* the lines of the longer scripts
CoreLines == LocLines \cup {Str(<<ENTERED, "b", DOT>>), SlainLine, Str(<<RESURRECTED>>), ChatLine}

\* what the log may hold when the engine starts
Scripts ==
  UNION {[1..n -> CoreLines] : n \in 0..MaxLines}
  \cup UNION {[1..n -> EngineLines] : n \in 0..MaxMixed}

\* the log that holds the lines ls, and the channel after the tailer has sent them
RECURSIVE FileOf(_)
FileOf(ls) ==
  IF ls = <<>> THEN <<>>
  ELSE Cat(Cat(FileOf(SubSeq(ls, 1, Len(ls) - 1)), ls[Len(ls)]), Str(<<NL>>))

RECURSIVE QueueOf(_)
QueueOf(ls) ==
  IF ls = <<>> THEN <<>>
  ELSE LET front == SubSeq(ls, 1, Len(ls) - 1)
       IN  QSend(QueueOf(front),
                 [line |-> ls[Len(ls)], src |-> "A", gen |-> 1, off |-> CLen(FileOf(front))])

\* the log as Start found it: empty, ending with "You have entered a.", and
\* ending with "You have entered an Arena (PvP) area."
StartLogs ==
  { cEmpty, << ZoneLine("a") >>,
    << ZoneLine("a"), Run(<<ENTERED, "an Arena ", PVP, AREA, DOT, NL>>, 1) >> }

\* what detectInitialZone leaves in InitialZone for these logs
DetectedZones == { ScanZones(c, ZoneScanStart(c), <<>>) : c \in StartLogs }

\* the engine is about to start; the tailer has read the log to its end and
\* waits for more
InitEngine ==
  \E ls \in Scripts :
    /\ EQPath = TRUE /\ mpc = "ui" /\ crashed = FALSE /\ envLeft = 0
    /\ status = [p \in Paths |-> IF p \in {"A", "N"} THEN "present" ELSE "absent"]
    /\ mtime = [p \in Paths |-> 1]
    /\ readable = [p \in Paths |-> TRUE]
    /\ content = [p \in Paths |-> IF p = "A" THEN FileOf(ls) ELSE cEmpty]
    /\ Lines = QueueOf(ls)
    /\ InitialZone \in DetectedZones
    /\ tpc = "check" /\ currentPath = "A" /\ file = [path |-> "A", closed |-> FALSE]
    /\ hasReader = TRUE /\ rpos = CLen(FileOf(ls)) /\ wpos = CLen(FileOf(ls))
    /\ logs = {} /\ cleanLine = NoLine /\ gen = 1 /\ openOff = 0
    /\ openSize = CLen(FileOf(ls))
    /\ epc = "seed" /\ Zone = <<>> /\ got = NoLine
    /\ X = 0 /\ Y = 0 /\ Z = 0 /\ Heading = Angle0
    /\ CorpseX = 0 /\ CorpseY = 0 /\ CorpseZone = <<>> /\ HasCorpse = FALSE
    /\ lastX = 0 /\ lastY = 0 /\ hasMoved = FALSE
    /\ WindowInit0 /\ NoMaps

EngineNext == EngineSeed \/ EngineRecv

SpecEngine == InitEngine /\ [][EngineNext]_vars

\* ------------------------------------------------------------------------
\* Strings taken byte by byte (the map files and the lookup file)
\* ------------------------------------------------------------------------
CM == ","
USCORE == "_"
PLUS == "+"
EQUALS == "="
HASH == "#"
BRACKET == "["
\* the byte-order mark U+FEFF
BOM == "BOM"

\* s repeated n times
RECURSIVE Repeat(_, _)
Repeat(s, n) == IF n = 0 THEN <<>> ELSE s \o Repeat(s, n - 1)

\* the bytes of a byte string one by one
RECURSIVE Flat(_)
Flat(c) == IF c = <<>> THEN <<>> ELSE Repeat(Head(c).s, Head(c).n) \o Flat(Tail(c))

\* the letters of the model, upper case and lower case
UpperChars == <<"A", "B", "L", "P", "T", "X", "Z">>
LowerChars == <<"a", "b", "l", "p", "t", "x", "z">>

\* unicode.ToUpper, unicode.ToLower
ToUpperCh(ch) ==
  IF \E k \in 1..Len(LowerChars) : LowerChars[k] = ch
    THEN UpperChars[CHOOSE k \in 1..Len(LowerChars) : LowerChars[k] = ch]
    ELSE ch
ToLowerCh(ch) ==
  IF \E k \in 1..Len(UpperChars) : UpperChars[k] = ch
    THEN LowerChars[CHOOSE k \in 1..Len(UpperChars) : UpperChars[k] = ch]
    ELSE ch

\* strings.ToLower
ToLower(s) == [k \in 1..Len(s) |-> ToLowerCh(s[k])]

\* strings.TrimSpace
StrTrimSpace(s) == SubSeq(s, LeadSpaces(s) + 1, Len(s) - TrailSpaces(s))

\* strings.TrimLeft(s, cutset)
RECURSIVE StrTrimLeft(_, _)
StrTrimLeft(s, cutset) ==
  IF s # <<>> /\ s[1] \in cutset THEN StrTrimLeft(Tail(s), cutset) ELSE s

\* strings.ReplaceAll(s, old, new) for an old of one symbol
RECURSIVE StrReplaceAll(_, _, _)
StrReplaceAll(s, old, new) ==
  IF s = <<>> THEN <<>>
  ELSE (IF s[1] = old THEN new ELSE <<s[1]>>) \o StrReplaceAll(Tail(s), old, new)

\* strings.Split(s, sep) for a sep of one byte: never empty, "" gives [""]
RECURSIVE StrSplit(_, _)
StrSplit(s, sep) ==
  LET i == FirstIdx(s, sep, 1)
  IN  IF i = 0 THEN <<s>>
      ELSE <<SubSeq(s, 1, i - 1)>> \o StrSplit(SubSeq(s, i + 1, Len(s)), sep)

\* strings.SplitN(s, sep, 2)
StrSplit2(s, sep) ==
  LET i == FirstIdx(s, sep, 1)
  IN  IF i = 0 THEN <<s>> ELSE <<SubSeq(s, 1, i - 1), SubSeq(s, i + 1, Len(s))>>

\* strings.Join(parts, sep)
RECURSIVE StrJoin(_, _)
StrJoin(parts, sep) ==
  IF parts = <<>> THEN <<>>
  ELSE IF Len(parts) = 1 THEN parts[1]
  ELSE parts[1] \o <<sep>> \o StrJoin(Tail(parts), sep)

\* the order of the bytes of the model, as sort.Strings compares them
ByteOrder ==
  <<SP, "#", ",", "-", ".", "0", "1", "2", "3", "4", "5", "6", "7", "8", "9", "=",
    "A", "B", "L", "P", "T", "X", "Z", "[", "_", "a", "b", "l", "p", "t", "x", "z">>
Ord(ch) == CHOOSE k \in 1..Len(ByteOrder) : ByteOrder[k] = ch

\* a < b for two strings
StrLess(a, b) ==
  \E k \in 1..Len(b) :
    /\ k - 1 <= Len(a)
    /\ \A j \in 1..(k - 1) : a[j] = b[j]
    /\ k <= Len(a) => Ord(a[k]) < Ord(b[k])

\* ------------------------------------------------------------------------
\* Zone map loader (internal/maps/loader.go)
\* ------------------------------------------------------------------------
\* bufio.MaxScanTokenSize: the longest line a Scanner hands out, newline included
MaxScanTokenSize == 65536
\* MinX: 99999, MaxX: -99999, in hundredths
BoundsSentinel == 9999900

\* color.RGBA{r, g, b, a}
RGBA(r, g, b, a) == <<r, g, b, a>>

\* strconv.Atoi(strings.TrimSpace(s)) with the error dropped: an optional
\* sign and digits; anything else is a syntax error, for which Atoi returns 0
parseInt(s) ==
  LET Digits(t, body) ==
        IF body = <<>> \/ \E k \in 1..Len(body) : ~IsDigit(body[k]) THEN 0
        ELSE IF t[1] = MINUS THEN 0 - DecVal(body) ELSE DecVal(body)
      Trimmed(t) == Digits(t, IF t # <<>> /\ t[1] \in {MINUS, PLUS} THEN Tail(t) ELSE t)
  IN  Trimmed(StrTrimSpace(s))

\* strconv.ParseFloat(strings.TrimSpace(s), 64) with the error dropped.  The
\* strings of the model hold decimal numerals and text that is no number (no
\* exponents, no hexadecimal floats, no "inf" or "nan", nothing out of range),
\* so that a byte outside [0-9.+-] is a syntax error.
parseFloat(s) ==
  LET Unsigned(t, u) ==
        IF \/ \E k \in 1..Len(u) : ~IsNumChar(u[k])
           \/ u # t /\ u # <<>> /\ u[1] = MINUS
          THEN 0 ELSE ParseFloat(u)
      Trimmed(t) == Unsigned(t, IF t # <<>> /\ t[1] = PLUS THEN Tail(t) ELSE t)
  IN  Trimmed(StrTrimSpace(s))

\* parseColor that keeps black
parseColorPlain(r, g, b) == RGBA(parseInt(r) % 256, parseInt(g) % 256, parseInt(b) % 256, 255)

\* parseColor: uint8(ri) keeps the low eight bits
parseColor(r, g, b) ==
  LET Colour(ri, gi, bi) ==
        IF ri = 0 /\ gi = 0 /\ bi = 0 THEN RGBA(130, 130, 130, 255)
        ELSE RGBA(ri % 256, gi % 256, bi % 256, 255)
  IN  Colour(parseInt(r), parseInt(g), parseInt(b))

\* bounds that only ever grow upwards
updateBoundsMax(zm, x, y) ==
  [zm EXCEPT !.MaxX = IF x > @ THEN x ELSE @, !.MaxY = IF y > @ THEN y ELSE @]

\* zm.updateBounds(x, y)
updateBounds(zm, x, y) ==
  [zm EXCEPT !.MinX = IF x < @ THEN x ELSE @, !.MaxX = IF x > @ THEN x ELSE @,
             !.MinY = IF y < @ THEN y ELSE @, !.MaxY = IF y > @ THEN y ELSE @]

\* the loop over the runes of the line: the index of the first L or P in
\* either case (from 1; 0 when there is none)
CmdIndex(line) ==
  LET hits == {k \in 1..Len(line) : ToUpperCh(line[k]) \in {"L", "P"}}
  IN  IF hits = {} THEN 0 ELSE CHOOSE k \in hits : \A j \in hits : k <= j

\* the MapLine with the first two fields the other way round
MapLineSwapped(parts) ==
  [X1 |-> parseFloat(parts[2]), Y1 |-> parseFloat(parts[1]), Z1 |-> parseFloat(parts[3]),
   X2 |-> parseFloat(parts[5]), Y2 |-> parseFloat(parts[4]), Z2 |-> parseFloat(parts[6]),
   Color |-> IF Len(parts) >= 9 THEN parseColor(parts[7], parts[8], parts[9])
             ELSE RGBA(150, 150, 150, 255)]

\* the MapLine of an L command with at least 6 fields
MapLineOf(parts) ==
  [X1 |-> parseFloat(parts[1]), Y1 |-> parseFloat(parts[2]), Z1 |-> parseFloat(parts[3]),
   X2 |-> parseFloat(parts[4]), Y2 |-> parseFloat(parts[5]), Z2 |-> parseFloat(parts[6]),
   Color |-> IF Len(parts) >= 9 THEN parseColor(parts[7], parts[8], parts[9])
             ELSE RGBA(150, 150, 150, 255)]

\* the MapLabel of a P command with at least 7 fields
MapLabelOf(parts) ==
  [X |-> parseFloat(parts[1]), Y |-> parseFloat(parts[2]), Z |-> parseFloat(parts[3]),
   Color |-> parseColor(parts[4], parts[5], parts[6]),
   Size |-> parseInt(parts[7]),
   Text |-> IF Len(parts) >= 8
              THEN StrReplaceAll(StrTrimSpace(StrJoin(SubSeq(parts, 8, Len(parts)), CM)),
                                 USCORE, <<SP>>)
              ELSE <<>>]

\* the body of the loop of parseFile for one line; acc is zm and count
parseLine(acc, rawLine) ==
  LET AddLine(l) ==
        [zm |-> updateBounds(updateBounds([acc.zm EXCEPT !.Lines = Append(@, l)],
                                          l.X1, l.Y1),
                             l.X2, l.Y2),
         count |-> acc.count + 1]
      Command(cmd, parts) ==
        IF cmd = "L"
          THEN IF Len(parts) >= 6 THEN AddLine(MapLineOf(parts)) ELSE acc
        ELSE IF Len(parts) >= 7
          THEN [zm |-> [acc.zm EXCEPT !.Labels = Append(@, MapLabelOf(parts))],
                count |-> acc.count + 1]
        ELSE acc
      Hunt(line, ci) ==
        IF line = <<>> \/ ci = 0 THEN acc
        ELSE Command(ToUpperCh(line[ci]),
                     StrSplit(StrTrimLeft(SubSeq(line, ci + 1, Len(line)), {SP, CM}), CM))
      Sanitized(line) == Hunt(line, CmdIndex(line))
  IN  Sanitized(StrTrimSpace(StrReplaceAll(Flat(rawLine), BOM, <<>>)))

\* the lines scanner.Scan() hands out: Scan returns false at the first line
\* of MaxScanTokenSize bytes or more (ErrTooLong), and parseFile does not
\* look at scanner.Err()
RECURSIVE Scanned(_)
Scanned(ls) ==
  IF ls = <<>> \/ CLen(Head(ls)) >= MaxScanTokenSize THEN <<>>
  ELSE <<Head(ls)>> \o Scanned(Tail(ls))

RECURSIVE ParseLines(_, _)
ParseLines(acc, ls) ==
  IF ls = <<>> THEN acc ELSE ParseLines(parseLine(acc, Head(ls)), Tail(ls))

\* zm.parseFile(path): the ZoneMap after it, itemsAdded and whether err # nil
parseFile(zm, f) ==
  IF ~f.readable THEN [zm |-> zm, count |-> 0, err |-> TRUE]
  ELSE LET Done(r) == [zm |-> r.zm, count |-> r.count, err |-> FALSE]
       IN  Done(ParseLines([zm |-> zm, count |-> 0], Scanned(f.lines)))

\* a ZoneMap that is kept from one call to the next
NewZoneMapKept(zoneName) ==
  IF ret.fn = "LoadZone" /\ ret.zm # <<>> THEN ret.zm[1]
  ELSE [Name |-> zoneName, Lines |-> <<>>, Labels |-> <<>>,
        MinX |-> BoundsSentinel, MaxX |-> 0 - BoundsSentinel,
        MinY |-> BoundsSentinel, MaxY |-> 0 - BoundsSentinel]

\* zm := &ZoneMap{Name: zoneName, MinX: 99999, MaxX: -99999, MinY: 99999, MaxY: -99999}
NewZoneMap(zoneName) ==
  [Name |-> zoneName, Lines |-> <<>>, Labels |-> <<>>,
   MinX |-> BoundsSentinel, MaxX |-> 0 - BoundsSentinel,
   MinY |-> BoundsSentinel, MaxY |-> 0 - BoundsSentinel]

\* ".txt"
TXT == <<".", "t", "x", "t">>

\* the layers in the order _3, _2, _1, base
TargetsReversed(zoneName) ==
  << ToLower(zoneName \o <<USCORE, "3">> \o TXT), ToLower(zoneName \o <<USCORE, "2">> \o TXT),
     ToLower(zoneName \o <<USCORE, "1">> \o TXT), ToLower(zoneName \o TXT) >>

\* targets: the base file and the layers 1 to 3, lower-cased
Targets(zoneName) ==
  << ToLower(zoneName \o TXT), ToLower(zoneName \o <<USCORE, "1">> \o TXT),
     ToLower(zoneName \o <<USCORE, "2">> \o TXT), ToLower(zoneName \o <<USCORE, "3">> \o TXT) >>

\* an index of the names as they are written
FileForExact(dir, target) ==
  LET c == {f \in dir : f.name = target}
  IN  IF c = {} THEN <<>> ELSE << CHOOSE f \in c : TRUE >>

\* fileMap[target] after the loop over filepath.Glob's sorted listing: of
\* the names that lower-case to target, the last one (<<>>: none)
FileFor(dir, target) ==
  LET c == {f \in dir : ToLower(f.name) = target}
  IN  IF c = {} THEN <<>>
      ELSE << CHOOSE f \in c : \A g \in c : g = f \/ StrLess(g.name, f.name) >>

\* the loop over targets
RECURSIVE LoadTargets(_, _, _, _)
LoadTargets(dir, ts, zm, found) ==
  IF ts = <<>> THEN [zm |-> zm, found |-> found]
  ELSE LET Parsed(r) == LoadTargets(dir, Tail(ts), r.zm, found \/ (~r.err /\ r.count > 0))
           Indexed(f) == IF f = <<>> THEN LoadTargets(dir, Tail(ts), zm, found)
                         ELSE Parsed(parseFile(zm, f[1]))
       IN  Indexed(FileFor(dir, Head(ts)))

\* LoadZone(mapDir, zoneName): the ZoneMap (<<>>: nil) and whether err # nil
LoadZone(dir, zoneName) ==
  LET Outcome(r) ==
        IF ~r.found THEN [zm |-> <<>>, err |-> TRUE] ELSE [zm |-> << r.zm >>, err |-> FALSE]
  IN  Outcome(LoadTargets(dir, Targets(zoneName), NewZoneMap(zoneName), FALSE))

\* ------------------------------------------------------------------------
\* Zone lookup (internal/maps/lookup.go)
\* ------------------------------------------------------------------------
\* A Go map is a set of <<key, value>> with one pair per key.
MapKeys(mp) == {p[1] : p \in mp}
MapHas(mp, k) == \E p \in mp : p[1] = k
MapGet(mp, k) == (CHOOSE p \in mp : p[1] = k)[2]
MapPut(mp, k, v) == {p \in mp : p[1] # k} \cup {<<k, v>>}

\* json.Decode into rawMap: of the members with the same name the last one
\* stays
RECURSIVE RawMap(_)
RawMap(pairs) ==
  IF pairs = <<>> THEN {}
  ELSE MapPut(RawMap(SubSeq(pairs, 1, Len(pairs) - 1)), pairs[Len(pairs)][1],
              pairs[Len(pairs)][2])

\* LoadZoneConfig(path): the values ZoneFileMap may have after it.  The loop
\* ranges over rawMap in an order the runtime picks, so that of the keys that
\* lower-case to the same string any one may be written last.
LoadZoneConfig(zfm, cfg) ==
  IF ~cfg.readable \/ ~cfg.valid THEN {zfm}
  ELSE LET raw == RawMap(cfg.pairs)
           lks == {ToLower(k) : k \in MapKeys(raw)}
           vals == {p[2] : p \in raw}
           last == {f \in [lks -> vals] :
                      \A lk \in lks : \E p \in raw : ToLower(p[1]) = lk /\ p[2] = f[lk]}
       IN  { {p \in zfm : p[1] \notin lks} \cup {<<lk, f[lk]>> : lk \in lks} : f \in last }

\* a lookup that compares the name as it is written
GetZoneFileNameExact(zfm, zoneName) ==
  IF MapHas(zfm, zoneName) THEN MapGet(zfm, zoneName) ELSE <<>>

\* GetZoneFileName(zoneName) (<<>>: "")
GetZoneFileName(zfm, zoneName) ==
  IF MapHas(zfm, ToLower(zoneName)) THEN MapGet(zfm, ToLower(zoneName)) ELSE <<>>

\* strings.HasPrefix(line, prefix) for a prefix of one byte
HasPrefix(line, prefix) == line # <<>> /\ line[1] = prefix

\* the body of the loop of LoadZoneLookup for one line
lookupLine(lookup, rawLine) ==
  LET line == StrTrimSpace(Flat(rawLine))
      parts == StrSplit2(line, EQUALS)
  IN  IF line = <<>> \/ HasPrefix(line, HASH) \/ HasPrefix(line, BRACKET) THEN lookup
      ELSE IF Len(parts) = 2
        THEN MapPut(lookup, ToLower(StrTrimSpace(parts[1])), StrTrimSpace(parts[2]))
      ELSE lookup

RECURSIVE LookupLines(_, _)
LookupLines(lookup, ls) ==
  IF ls = <<>> THEN lookup ELSE LookupLines(lookupLine(lookup, Head(ls)), Tail(ls))

\* LoadZoneLookup(path): the map (<<>>: nil) and whether err # nil
LoadZoneLookup(cfg) ==
  IF ~cfg.readable THEN [map |-> <<>>, err |-> TRUE]
  ELSE [map |-> << LookupLines({}, Scanned(cfg.lines)) >>, err |-> FALSE]

\* ------------------------------------------------------------------------
\* The map directory and the calls of LoadZone
\* ------------------------------------------------------------------------
\* the fields of a command: numbers in hundredths, written "5, 10, -1.5"
RECURSIVE FieldList(_)
FieldList(nums) ==
  IF nums = <<>> THEN <<>>
  ELSE IF Len(nums) = 1 THEN Fmt(nums[1])
  ELSE Fmt(nums[1]) \o <<CM, SP>> \o FieldList(Tail(nums))

\* "L 5, 10, 0, 15, 20, 1" and the like
MapCmd(cmd, nums) == Str(<<cmd, SP>> \o FieldList(nums))

Seg6 == MapCmd("L", <<500, 1000, 0, 1500, 2000, 100>>)
SegRed == MapCmd("L", <<-500, -1000, 0, 150, 200, 0, 25500, 0, 0>>)
SegBlack == MapCmd("L", <<3000, 3000, 0, 4000, 4000, 0, 0, 0, 0>>)
Seg7 == MapCmd("L", <<500, 1000, 0, 1500, 2000, 100, 25500>>)
Seg5 == MapCmd("L", <<500, 1000, 0, 1500, 2000>>)
SegLower == MapCmd("l", <<100, 200, 300, 400, 500, 600>>)
\* "L x, 10, 0, 15, 20, 1, 255, x, 0": fields that are no numbers
SegBad == Str(<<"L", SP, "x", CM>> \o FieldList(<<1000, 0, 1500, 2000, 100, 25500>>)
              \o <<CM, "x", CM, "0">>)
\* the byte-order mark, then "L 1, 2, 3, 4, 5, 6"
SegBom == Str(<<BOM, "L", SP>> \o FieldList(<<100, 200, 300, 400, 500, 600>>))
\* "L 5, 10, 0, 15, 20, 1, 256, 0, 0": a colour field above 255
SegWrap == MapCmd("L", <<500, 1000, 0, 1500, 2000, 100, 25600, 0, 0>>)
\* "P 900, 900, 0, 0, 0, 0, 2, a_b,x"
Label8 == Str(<<"P", SP>> \o FieldList(<<90000, 90000, 0, 0, 0, 0, 200>>)
              \o <<CM, SP, "a", USCORE, "b", CM, "x">>)
Label6 == MapCmd("P", <<700, 800, 0, 0, 0, 0>>)
\* "# x", an empty line of two spaces, and a line of MaxScanTokenSize bytes
CommentLine == Str(<<HASH, SP, "x">>)
BlankLine == Str(<<SP, SP>>)
LongLine == << Run(<<HASH>>, MaxScanTokenSize) >>

\* the lines that give a segment or a label, and the lines that give nothing
GoodLines == {Seg6, SegRed, SegBlack, Seg7, SegLower, SegBad, SegBom, SegWrap, Label8}
SkippedLines == {Seg5, Label6, CommentLine, BlankLine}
MapLines == GoodLines \cup SkippedLines \cup {LongLine}

\* the files of the directories with several files
LayerFiles ==
  { [lines |-> <<>>, readable |-> TRUE], [lines |-> <<CommentLine>>, readable |-> TRUE],
    [lines |-> <<Seg6>>, readable |-> TRUE], [lines |-> <<Label8, SegRed>>, readable |-> TRUE],
    [lines |-> <<SegBlack>>, readable |-> FALSE] }

\* "z.txt", "Z.TXT", "z_1.txt", "Z_2.txt", "z_3.txt", "z_4.txt"
LayerNames ==
  { <<"z">> \o TXT, <<"Z", ".", "T", "X", "T">>, <<"z", USCORE, "1">> \o TXT,
    <<"Z", USCORE, "2">> \o TXT, <<"z", USCORE, "3">> \o TXT, <<"z", USCORE, "4">> \o TXT }

MapFile(name, f) == [name |-> name, lines |-> f.lines, readable |-> f.readable]

\* a directory with the files named ns
DirsOver(ns) == { {MapFile(n, g[n]) : n \in ns} : g \in [ns -> LayerFiles] }

\* the map directories: up to MaxFiles files of the layers, or the base file
\* alone with up to MaxMapLines lines of any kind
MapDirs ==
  UNION { DirsOver(ns) : ns \in {s \in SUBSET LayerNames : Cardinality(s) <= MaxFiles} }
  \cup { {[name |-> <<"z">> \o TXT, lines |-> ls, readable |-> TRUE]} :
           ls \in UNION {[1..n -> MapLines] : n \in 0..MaxMapLines} }

\* the zone codes LoadZone is called with: "z", "Z" and "b"
ZoneCodes == { <<"z">>, <<"Z">>, <<"b">> }

InitLoader ==
  /\ ProgramInit
  /\ EQPath = FALSE /\ envLeft = 0
  /\ status = [p \in Paths |-> "absent"]
  /\ mtime = [p \in Paths |-> 0]
  /\ readable = [p \in Paths |-> TRUE]
  /\ content = [p \in Paths |-> cEmpty]
  /\ mapFiles \in MapDirs /\ zoneCfg = NoCfg

\* a call of LoadZone(mapDir, code)
CallLoadZone(code) ==
  /\ \E r \in {LoadZone(mapFiles, code)} :
       ret' = [fn |-> "LoadZone", arg |-> code, zm |-> r.zm, err |-> r.err]
  /\ prev' = ret
  /\ UNCHANGED <<fsVars, mainVars, crashed, Lines, InitialZone, tailVars, logs, engVars,
                 uiVars, mapFiles, zoneCfg, ZoneFileMap>>

LoaderNext == \E code \in ZoneCodes : CallLoadZone(code)

SpecLoader == InitLoader /\ [][LoaderNext]_vars

\* ------------------------------------------------------------------------
\* The lookup file and the calls of the lookup functions
\* ------------------------------------------------------------------------
\* the long names "Ab", "ab", "B" and "b b", and the file codes "z" and "x"
LongNames == { <<"A", "b">>, <<"a", "b">>, <<"B">>, <<"b", SP, "b">> }
FileCodes == { <<"z">>, <<"x">> }

\* the tables of the lookup file: up to MaxPairs entries <<long name, code>>
Tables == UNION { [1..n -> LongNames \X FileCodes] : n \in 0..MaxPairs }

\* the table as map_keys.ini has it: a comment, a section, a line
\* " Long Name = code" for each entry, and a line without "="
RECURSIVE IniEntries(_)
IniEntries(pairs) ==
  IF pairs = <<>> THEN <<>>
  ELSE << Str(<<SP>> \o pairs[1][1] \o <<SP, EQUALS, SP>> \o pairs[1][2]) >>
       \o IniEntries(Tail(pairs))
IniOf(pairs) ==
  << Str(<<HASH, SP, "x">>), Str(<<BRACKET, "x">>) >> \o IniEntries(pairs) \o << Str(<<"x">>) >>

\* the lookup files: a table as a JSON object and as an .ini file; a file
\* that cannot be opened; a file that is no JSON
LookupFiles ==
  { [pairs |-> ps, lines |-> IniOf(ps), readable |-> TRUE, valid |-> TRUE] : ps \in Tables }
  \cup { [pairs |-> <<>>, lines |-> <<>>, readable |-> FALSE, valid |-> FALSE],
         [pairs |-> <<>>, lines |-> << Str(<<"x">>) >>, readable |-> TRUE, valid |-> FALSE] }

\* the names that are looked up: "AB", "ab", "aB", "b", "B B" and "x"
QueryNames == { <<"A", "B">>, <<"a", "b">>, <<"a", "B">>, <<"b">>, <<"B", SP, "B">>, <<"x">> }

InitLookup ==
  /\ ProgramInit
  /\ EQPath = FALSE /\ envLeft = 0
  /\ status = [p \in Paths |-> "absent"]
  /\ mtime = [p \in Paths |-> 0]
  /\ readable = [p \in Paths |-> TRUE]
  /\ content = [p \in Paths |-> cEmpty]
  /\ mapFiles = {} /\ zoneCfg \in LookupFiles

\* a call of LoadZoneConfig(path)
CallLoadZoneConfig ==
  /\ ZoneFileMap' \in LoadZoneConfig(ZoneFileMap, zoneCfg)
  /\ ret' = [fn |-> "LoadZoneConfig", err |-> ~zoneCfg.readable \/ ~zoneCfg.valid]
  /\ prev' = ret
  /\ UNCHANGED <<fsVars, mainVars, crashed, Lines, InitialZone, tailVars, logs, engVars,
                 uiVars, mapFiles, zoneCfg>>

\* a call of GetZoneFileName(zoneName)
CallGetZoneFileName(zoneName) ==
  /\ ret' = [fn |-> "GetZoneFileName", arg |-> zoneName,
             val |-> GetZoneFileName(ZoneFileMap, zoneName)]
  /\ prev' = ret
  /\ UNCHANGED <<fsVars, mainVars, crashed, Lines, InitialZone, tailVars, logs, engVars,
                 uiVars, mapFiles, zoneCfg, ZoneFileMap>>

\* a call of LoadZoneLookup(path)
CallLoadZoneLookup ==
  /\ \E r \in {LoadZoneLookup(zoneCfg)} :
       ret' = [fn |-> "LoadZoneLookup", map |-> r.map, err |-> r.err]
  /\ prev' = ret
  /\ UNCHANGED <<fsVars, mainVars, crashed, Lines, InitialZone, tailVars, logs, engVars,
                 uiVars, mapFiles, zoneCfg, ZoneFileMap>>

\* shortName, exists := lookup[strings.ToLower(zoneName)] on the map that
\* LoadZoneLookup returned; a nil map has no key
CallZoneLookup(zoneName) ==
  /\ ret.fn \in {"LoadZoneLookup", "ZoneLookup"}
  /\ LET mp == IF ret.map = <<>> THEN {} ELSE ret.map[1]
         exists == MapHas(mp, ToLower(zoneName))
     IN  ret' = [fn |-> "ZoneLookup", map |-> ret.map, arg |-> zoneName, exists |-> exists,
                 val |-> IF exists THEN MapGet(mp, ToLower(zoneName)) ELSE <<>>]
  /\ prev' = ret
  /\ UNCHANGED <<fsVars, mainVars, crashed, Lines, InitialZone, tailVars, logs, engVars,
                 uiVars, mapFiles, zoneCfg, ZoneFileMap>>

LookupNext ==
  \/ CallLoadZoneConfig
  \/ \E n \in QueryNames : CallGetZoneFileName(n)
  \/ CallLoadZoneLookup
  \/ \E n \in QueryNames : CallZoneLookup(n)

SpecLookup == InitLookup /\ [][LookupNext]_vars

\* ------------------------------------------------------------------------
\* The window (internal/ui/window.go) beside the engine
\* ------------------------------------------------------------------------
\* Window.loadMapForZone(zoneName): the value of w.MapData after it (<<>>: nil)
loadMapForZone(zfm, dir, zoneName) ==
  LET Kept(r) == IF r.err THEN <<>> ELSE r.zm
      Mapped(fileCode) == Kept(LoadZone(dir, IF fileCode = <<>> THEN zoneName ELSE fileCode))
  IN  Mapped(GetZoneFileName(zfm, zoneName))

\* the lines of the log: the two zones, a death, a position
UILines == EnteredLines \cup {SlainLine, LocLine(1000, 2000, 300)}
UIScripts == UNION {[1..n -> UILines] : n \in 0..MaxLines}

\* the map directories: none, "z.txt" with a segment, "Z.TXT" with a label and
\* a segment beside a "z_1.txt" that cannot be read
UIDirs ==
  { {},
    {MapFile(<<"z">> \o TXT, [lines |-> <<Seg6>>, readable |-> TRUE])},
    {MapFile(<<"Z", ".", "T", "X", "T">>, [lines |-> <<Label8, SegRed>>, readable |-> TRUE]),
     MapFile(<<"z", USCORE, "1">> \o TXT, [lines |-> <<SegBlack>>, readable |-> FALSE])} }

\* the lookup files: none, and one that gives zone "A" the code "z"
UIConfigs ==
  { NoCfg,
    [pairs |-> << <<<<"A">>, <<"z">>>> >>, lines |-> <<>>, readable |-> TRUE, valid |-> TRUE] }

\* main has started the engine and is about to build the window
InitUI ==
  \E ls \in UIScripts :
    /\ EQPath = TRUE /\ mpc = "ui" /\ crashed = FALSE /\ envLeft = 0
    /\ status = [p \in Paths |-> IF p \in {"A", "N"} THEN "present" ELSE "absent"]
    /\ mtime = [p \in Paths |-> 1]
    /\ readable = [p \in Paths |-> TRUE]
    /\ content = [p \in Paths |-> IF p = "A" THEN FileOf(ls) ELSE cEmpty]
    /\ Lines = QueueOf(ls)
    /\ InitialZone \in {<<>>, Str(<<"a">>)}
    /\ tpc = "check" /\ currentPath = "A" /\ file = [path |-> "A", closed |-> FALSE]
    /\ hasReader = TRUE /\ rpos = CLen(FileOf(ls)) /\ wpos = CLen(FileOf(ls))
    /\ logs = {} /\ cleanLine = NoLine /\ gen = 1 /\ openOff = 0
    /\ openSize = CLen(FileOf(ls))
    /\ epc = "seed" /\ Zone = <<>> /\ got = NoLine
    /\ X = 0 /\ Y = 0 /\ Z = 0 /\ Heading = Angle0
    /\ CorpseX = 0 /\ CorpseY = 0 /\ CorpseZone = <<>> /\ HasCorpse = FALSE
    /\ lastX = 0 /\ lastY = 0 /\ hasMoved = FALSE
    /\ WindowInit0
    /\ mapFiles \in UIDirs /\ zoneCfg \in UIConfigs

\* main: ui.NewWindow, win.Init (maps.LoadZoneConfig) and ebiten.RunGame
MainWindow ==
  /\ mpc = "ui" /\ ~crashed
  /\ mpc' = "run"
  /\ ZoneFileMap' \in LoadZoneConfig(ZoneFileMap, zoneCfg)
  /\ UNCHANGED <<uiVars, mapFiles, zoneCfg, ret, prev, fsVars, EQPath, crashed, Lines,
                 InitialZone, tailVars, logs, engVars>>

\* dist > 50, without the square root
Far(dx, dy) == dx * dx + dy * dy > CrumbStep * CrumbStep

\* Update, section 16: whether the position (x, y) is to be recorded
shouldAddBreadcrumb(bc, x, y) ==
  bc = <<>> \/ Far(x - bc[Len(bc)][1], y - bc[Len(bc)][2])

\* Update, section 16: the breadcrumbs once <<x, y>> is appended
Appended(bc, x, y) ==
  IF Len(bc) + 1 > CrumbCap THEN Tail(Append(bc, <<x, y>>)) ELSE Append(bc, <<x, y>>)

\* Update, section 16, run without the engine taking a step in between
AddCrumb(bc, x, y) == IF shouldAddBreadcrumb(bc, x, y) THEN Appended(bc, x, y) ELSE bc

\* an Update that loads the map again as long as it holds none
WindowUpdateRetry(kPressed) ==
  /\ mpc = "run" /\ ~crashed
  /\ HasCorpse' = IF kPressed /\ ~lastKKey THEN FALSE ELSE HasCorpse
  /\ lastKKey' = kPressed
  /\ IF Zone # CurrentZone \/ MapData = <<>>
        THEN /\ CurrentZone' = Zone
             /\ MapData' = loadMapForZone(ZoneFileMap, mapFiles, Flat(Zone))
             /\ loads' = loads + 1
             /\ Breadcrumbs' = <<>>
        ELSE /\ Breadcrumbs' = AddCrumb(Breadcrumbs, X, Y)
             /\ UNCHANGED <<CurrentZone, MapData, loads>>
  /\ UNCHANGED <<upc, bcX, mapVars, fsVars, mainVars, crashed, Lines, InitialZone, tailVars, logs,
                 epc, Zone, got, X, Y, Z, Heading, CorpseX, CorpseY, CorpseZone, lastX, lastY,
                 hasMoved>>

\* Window.Update, kPressed: whether the K key is down in this tick.  Of the
\* state of the window the zone, the map, the last state of the key and the
\* breadcrumbs are kept; the C key, which empties the breadcrumbs, stays up.
WindowUpdate(kPressed) ==
  /\ mpc = "run" /\ ~crashed
  /\ HasCorpse' = IF kPressed /\ ~lastKKey THEN FALSE ELSE HasCorpse
  /\ lastKKey' = kPressed
  /\ IF Zone # CurrentZone
        THEN /\ CurrentZone' = Zone
             /\ MapData' = loadMapForZone(ZoneFileMap, mapFiles, Flat(Zone))
             /\ loads' = loads + 1
             /\ Breadcrumbs' = <<>>
        ELSE /\ Breadcrumbs' = AddCrumb(Breadcrumbs, X, Y)
             /\ UNCHANGED <<CurrentZone, MapData, loads>>
  /\ UNCHANGED <<upc, bcX, mapVars, fsVars, mainVars, crashed, Lines, InitialZone, tailVars, logs,
                 epc, Zone, got, X, Y, Z, Heading, CorpseX, CorpseY, CorpseZone, lastX, lastY,
                 hasMoved>>

\* the action of the menu item "Clear Corpse Marker", which the menu holds
\* while HasCorpse is set
WindowClearCorpse ==
  /\ mpc = "run" /\ ~crashed
  /\ HasCorpse
  /\ HasCorpse' = FALSE
  /\ UNCHANGED <<winVars, fsVars, mainVars, crashed, Lines, InitialZone, tailVars, logs,
                 epc, Zone, got, X, Y, Z, Heading, CorpseX, CorpseY, CorpseZone, lastX, lastY,
                 hasMoved>>

UINext ==
  \/ EngineSeed
  \/ EngineRecv
  \/ MainWindow
  \/ \E kPressed \in BOOLEAN : WindowUpdate(kPressed)
  \/ WindowClearCorpse

SpecUI == InitUI /\ [][UINext]_vars

\* ------------------------------------------------------------------------
\* The cleanup tool (cmd/cleanup/main.go)
\* ------------------------------------------------------------------------
\* An entry of the map directory is a file of the loader with a field isDir.
\* "map_keys.json", "map_keys.ini"
KeysJson == <<"map", USCORE, "keys", ".", "json">>
KeysIni == <<"map", USCORE, "keys", ".", "ini">>

\* strings.TrimSuffix(s, suffix)
StrTrimSuffix(s, suffix) ==
  IF Len(s) >= Len(suffix) /\ SubSeq(s, Len(s) - Len(suffix) + 1, Len(s)) = suffix
    THEN SubSeq(s, 1, Len(s) - Len(suffix))
    ELSE s

\* strings.HasPrefix(s, prefix)
StrHasPrefix(s, prefix) == Len(s) >= Len(prefix) /\ SubSeq(s, 1, Len(prefix)) = prefix

\* filepath.Ext(name): the suffix that starts at the last dot (<<>>: none)
Ext(name) ==
  LET dots == {k \in 1..Len(name) : name[k] = "."}
  IN  IF dots = {} THEN <<>> ELSE SubSeq(name, MaxOf(dots), Len(name))

\* loadValidPrefixes(path), for a file that decodes: the codes, lower-cased
loadValidPrefixes(cfg) == {ToLower(p[2]) : p \in RawMap(cfg.pairs)}

\* a check that knows the exact match only
shouldKeepExact(filename, prefixes) ==
  StrTrimSuffix(ToLower(filename), TXT) \in prefixes

\* shouldKeepFile(filename, prefixes)
shouldKeepFile(filename, prefixes) ==
  LET Keep(baseName) ==
        \/ baseName \in prefixes
        \/ /\ \E k \in 1..Len(baseName) : baseName[k] = USCORE
           /\ \E q \in prefixes : StrHasPrefix(baseName, q \o <<USCORE>>)
  IN  Keep(StrTrimSuffix(ToLower(filename), TXT))

\* main, the loop: the entries it looks at, and those it tries to delete
Examined(dir) ==
  {f \in dir : ~f.isDir /\ f.name \notin {KeysJson, KeysIni} /\ Ext(f.name) = TXT}
Doomed(dir, prefixes) == {f \in Examined(dir) : ~shouldKeepFile(f.name, prefixes)}

\* main: a run of the tool.  It panics when the key file cannot be opened or
\* decoded; any os.Remove may fail, and the file then stays.
CleanupMain ==
  /\ IF ~zoneCfg.readable \/ ~zoneCfg.valid
        THEN /\ mapFiles' = mapFiles
             /\ ret' = [fn |-> "cleanup", panicked |-> TRUE, before |-> mapFiles,
                        keptCount |-> 0, deletedCount |-> 0]
        ELSE \E doomed \in {Doomed(mapFiles, loadValidPrefixes(zoneCfg))} :
               \E failed \in SUBSET doomed :
                 /\ mapFiles' = mapFiles \ (doomed \ failed)
                 /\ ret' = [fn |-> "cleanup", panicked |-> FALSE, before |-> mapFiles,
                            keptCount |-> Cardinality(Examined(mapFiles) \ doomed),
                            deletedCount |-> Cardinality(doomed \ failed)]
  /\ prev' = ret
  /\ UNCHANGED <<fsVars, mainVars, crashed, Lines, InitialZone, tailVars, logs, engVars,
                 uiVars, zoneCfg, ZoneFileMap>>

Entry(name, lines, isDir) ==
  [name |-> name, lines |-> lines, readable |-> ~isDir, isDir |-> isDir]

\* "z.txt", "Z.TXT", "Z_2.txt", "z_4.txt", "b.txt", "zb.txt", "b.png",
\* "map_keys.ini" and a directory "b_1.txt"
CleanEntries ==
  { Entry(<<"z">> \o TXT, <<Seg6>>, FALSE),
    Entry(<<"Z", ".", "T", "X", "T">>, <<Label8, SegRed>>, FALSE),
    Entry(<<"Z", USCORE, "2">> \o TXT, <<SegRed>>, FALSE),
    Entry(<<"z", USCORE, "4">> \o TXT, <<Seg6>>, FALSE),
    Entry(<<"b">> \o TXT, <<Seg6>>, FALSE),
    Entry(<<"z", "b">> \o TXT, <<Seg6>>, FALSE),
    Entry(<<"b", ".", "png">>, <<>>, FALSE),
    Entry(KeysIni, <<>>, FALSE),
    Entry(<<"b", USCORE, "1">> \o TXT, <<>>, TRUE) }

\* the key files: none, one that does not decode, {"A": "z"}, and
\* {"A": "Z", "B": "b"}
CleanCfgs ==
  { NoCfg,
    [pairs |-> <<>>, lines |-> <<>>, readable |-> TRUE, valid |-> FALSE],
    [pairs |-> << <<<<"A">>, <<"z">>>> >>, lines |-> <<>>, readable |-> TRUE, valid |-> TRUE],
    [pairs |-> << <<<<"A">>, <<"Z">>>>, <<<<"B">>, <<"b">>>> >>, lines |-> <<>>,
     readable |-> TRUE, valid |-> TRUE] }

\* up to MaxEntries entries beside the key file, which is there when it can
\* be read
InitCleanup ==
  /\ ProgramInit
  /\ EQPath = FALSE /\ envLeft = 0
  /\ status = [p \in Paths |-> "absent"]
  /\ mtime = [p \in Paths |-> 0]
  /\ readable = [p \in Paths |-> TRUE]
  /\ content = [p \in Paths |-> cEmpty]
  /\ zoneCfg \in CleanCfgs
  /\ \E es \in {s \in SUBSET CleanEntries : Cardinality(s) <= MaxEntries} :
       mapFiles = es \cup (IF zoneCfg.readable THEN {Entry(KeysJson, <<>>, FALSE)} ELSE {})

CleanupNext == CleanupMain

SpecCleanup == InitCleanup /\ [][CleanupNext]_vars

\* ------------------------------------------------------------------------
\* Update beside ProcessLines, one access of Engine.CurrentState at a time
\* ------------------------------------------------------------------------
\* ProcessLines: a line is received and its rule applied, for a position line
\* up to the assignment of CurrentState.X
EngineStoreX ==
  /\ epc = "recv" /\ ~crashed
  /\ Lines # <<>>
  /\ Lines' = QRest(Lines)
  /\ got' = QFirst(Lines)
  /\ \E st \in {ProcessLine(EngineState, QFirst(Lines).line)} :
         /\ Heading' = st.Heading /\ hasMoved' = st.hasMoved
         /\ X' = st.X
         /\ Zone' = st.Zone
         /\ CorpseX' = st.CorpseX /\ CorpseY' = st.CorpseY
         /\ CorpseZone' = st.CorpseZone /\ HasCorpse' = st.HasCorpse
  /\ epc' = IF LocCapture(QFirst(Lines).line, 0) # <<>> THEN "storeY" ELSE "recv"
  /\ UNCHANGED <<Y, Z, lastX, lastY, winVars, fsVars, mainVars, crashed, InitialZone,
                 tailVars, logs>>

\* ProcessLines: the rest of the position rule, from the assignment of
\* CurrentState.Y on
EngineStoreY ==
  /\ epc = "storeY" /\ ~crashed
  /\ \E st \in {Position(EngineState, LocCapture(got.line, 0))} :
         /\ Y' = st.Y /\ Z' = st.Z
         /\ lastX' = st.lastX /\ lastY' = st.lastY
  /\ epc' = "recv"
  /\ UNCHANGED <<X, Heading, hasMoved, Zone, got, CorpseX, CorpseY, CorpseZone, HasCorpse,
                 winVars, fsVars, mainVars, crashed, Lines, InitialZone, tailVars, logs>>

\* what the steps of Update leave alone
UpdateKeeps ==
  UNCHANGED <<mapVars, fsVars, mainVars, crashed, Lines, InitialZone, tailVars, logs,
              epc, Zone, got, X, Y, Z, Heading, CorpseX, CorpseY, CorpseZone, lastX, lastY,
              hasMoved>>

\* Update, section 9: the K key
UpdateKeys(kPressed) ==
  /\ mpc = "run" /\ ~crashed /\ upc = "keys"
  /\ HasCorpse' = IF kPressed /\ ~lastKKey THEN FALSE ELSE HasCorpse
  /\ lastKKey' = kPressed
  /\ upc' = "dx"
  /\ UNCHANGED <<CurrentZone, MapData, loads, Breadcrumbs, bcX>>
  /\ UpdateKeeps

\* Update, section 16: len(w.Breadcrumbs) == 0, or else CurrentState.X is read
\* for dx
UpdateReadDX ==
  /\ mpc = "run" /\ ~crashed /\ upc = "dx"
  /\ IF Breadcrumbs = <<>> THEN upc' = "x" /\ bcX' = bcX
                           ELSE upc' = "dy" /\ bcX' = X
  /\ UNCHANGED <<CurrentZone, MapData, loads, Breadcrumbs, lastKKey, HasCorpse>>
  /\ UpdateKeeps

\* Update, section 16: CurrentState.Y is read for dy, and dist > 50 decided
UpdateReadDY ==
  /\ mpc = "run" /\ ~crashed /\ upc = "dy"
  /\ upc' = IF Far(bcX - Breadcrumbs[Len(Breadcrumbs)][1], Y - Breadcrumbs[Len(Breadcrumbs)][2])
               THEN "x" ELSE "zone"
  /\ UNCHANGED <<CurrentZone, MapData, loads, Breadcrumbs, lastKKey, HasCorpse, bcX>>
  /\ UpdateKeeps

\* Update, section 16: CurrentState.X is read for the new BreadcrumbPoint
UpdateReadX ==
  /\ mpc = "run" /\ ~crashed /\ upc = "x"
  /\ bcX' = X
  /\ upc' = "y"
  /\ UNCHANGED <<CurrentZone, MapData, loads, Breadcrumbs, lastKKey, HasCorpse>>
  /\ UpdateKeeps

\* Update, section 16: CurrentState.Y is read and the BreadcrumbPoint appended
UpdateAppend ==
  /\ mpc = "run" /\ ~crashed /\ upc = "y"
  /\ Breadcrumbs' = Appended(Breadcrumbs, bcX, Y)
  /\ upc' = "zone"
  /\ UNCHANGED <<CurrentZone, MapData, loads, lastKKey, HasCorpse, bcX>>
  /\ UpdateKeeps

\* Update, section 11: the zone change, after which Update returns
UpdateZone ==
  /\ mpc = "run" /\ ~crashed /\ upc = "zone"
  /\ IF Zone # CurrentZone
        THEN /\ CurrentZone' = Zone
             /\ MapData' = loadMapForZone(ZoneFileMap, mapFiles, Flat(Zone))
             /\ loads' = loads + 1
             /\ Breadcrumbs' = <<>>
        ELSE UNCHANGED <<CurrentZone, MapData, loads, Breadcrumbs>>
  /\ upc' = "keys" /\ bcX' = 0
  /\ UNCHANGED <<lastKKey, HasCorpse>>
  /\ UpdateKeeps

\* the lines of the log: the two zones and two positions far from each other
CrumbLines == EnteredLines \cup {LocLine(1000, 2000, 300), LocLine(7000, 9000, 0)}
CrumbScripts == UNION {[1..n -> CrumbLines] : n \in 0..MaxLines}

\* the window runs, with no map directory and no lookup file
InitCrumb ==
  \E ls \in CrumbScripts :
    /\ EQPath = TRUE /\ mpc = "run" /\ crashed = FALSE /\ envLeft = 0
    /\ status = [p \in Paths |-> IF p \in {"A", "N"} THEN "present" ELSE "absent"]
    /\ mtime = [p \in Paths |-> 1]
    /\ readable = [p \in Paths |-> TRUE]
    /\ content = [p \in Paths |-> IF p = "A" THEN FileOf(ls) ELSE cEmpty]
    /\ Lines = QueueOf(ls)
    /\ InitialZone = <<>>
    /\ tpc = "check" /\ currentPath = "A" /\ file = [path |-> "A", closed |-> FALSE]
    /\ hasReader = TRUE /\ rpos = CLen(FileOf(ls)) /\ wpos = CLen(FileOf(ls))
    /\ logs = {} /\ cleanLine = NoLine /\ gen = 1 /\ openOff = 0
    /\ openSize = CLen(FileOf(ls))
    /\ epc = "seed" /\ Zone = <<>> /\ got = NoLine
    /\ X = 0 /\ Y = 0 /\ Z = 0 /\ Heading = Angle0
    /\ CorpseX = 0 /\ CorpseY = 0 /\ CorpseZone = <<>> /\ HasCorpse = FALSE
    /\ lastX = 0 /\ lastY = 0 /\ hasMoved = FALSE
    /\ WindowInit0 /\ NoMaps

CrumbNext ==
  \/ EngineSeed
  \/ EngineStoreX
  \/ EngineStoreY
  \/ \E kPressed \in BOOLEAN : UpdateKeys(kPressed)
  \/ UpdateReadDX
  \/ UpdateReadDY
  \/ UpdateReadX
  \/ UpdateAppend
  \/ UpdateZone

SpecCrumb == InitCrumb /\ [][CrumbNext]_vars


\* ------------------------------------------------------------------------
\* Properties
\* ------------------------------------------------------------------------
\* the LogLines of the channel are those of its runs
LastOff(r) == r.off + (r.n - 1) * r.stride
Newest(q) == QElem(q[Len(q)], q[Len(q)].n - 1)
Oldest(q) == QElem(q[1], 0)

\* e1 was read before e2: from a file opened earlier, or earlier in the same file
Before(e1, e2) == e1.gen < e2.gen \/ (e1.gen = e2.gen /\ e1.off < e2.off)

ByteIs(c, i, ch) == FindFrom(c, ch, i, 0) = i

\* offset at which the line holding offset i starts
LineStart(c, i) == FindLast(Slice(c, 0, i), NL, 0) + 1

\* the file the reader reads
OpenContent == content[file.path]

\* the candidates of a directory, and the ones discovery chooses among
Candidates(dir) ==
  {p \in Paths : /\ status[p] = "present" /\ DirOf(p) = dir
                 /\ Head(NameOf(p)) = "eqlog" /\ NameOf(p)[Len(NameOf(p))] = ".txt"}
Pool == IF Candidates("root") # {} THEN Candidates("root") ELSE Candidates("Logs")

\* p was modified later than every other entry of ls
StrictlyLatest(p, ls) == p \in ls /\ \A q \in ls \ {p} : mtime[q] < mtime[p]

\* C1: the lines the tailer reads from the open file reach the engine in file
\* order: the channel holds them oldest first, the line about to be sent is
\* younger than all of them, and the engine's last line is older than all of them
C1_OrderPreserved ==
  /\ \A i \in 1..Len(Lines) : Lines[i].n > 1 => Lines[i].stride > 0
  /\ \A i \in 1..(Len(Lines) - 1) :
       Before(QElem(Lines[i], Lines[i].n - 1), QElem(Lines[i + 1], 0))
  /\ (got # NoLine /\ Lines # <<>>) => Before(got, Oldest(Lines))
  /\ (tpc = "push" /\ Lines # <<>>) => Before(Newest(Lines), cleanLine)
  /\ (tpc = "push" /\ got # NoLine) => Before(got, cleanLine)

C1_Witness ==
  /\ got # NoLine /\ QLen(Lines) >= 2 /\ tpc = "push"
  /\ got.gen = cleanLine.gen

\* C2: the tailer discards no line that is non-empty after trimming: when a read
\* takes it past the newline of a line that began at or after the open offset,
\* and the line is not blank, the trimmed line is what it sends next
C2_NoLineDiscarded ==
  [][ (gen' = gen /\ rpos' > rpos /\ ByteIs(OpenContent, rpos' - 1, NL)) =>
        LET s == LineStart(OpenContent, rpos' - 1)
            whole == TrimSpace(Slice(OpenContent, s, rpos'))
        IN  (s >= openOff /\ whole # <<>>) =>
              (tpc' = "push" /\ cleanLine'.line = whole) ]_vars

\* C3: the channel never holds more than its capacity; while it is full the
\* tailer stays in the send with its line; and it leaves the send only by
\* putting that line on the channel
C3_Backpressure ==
  /\ [](QLen(Lines) <= LinesCap)
  /\ [][ (tpc = "push" /\ QLen(Lines) = LinesCap) =>
           (tpc' = "push" /\ cleanLine' = cleanLine) ]_vars
  /\ [][ (tpc = "push" /\ tpc' # "push") =>
           (QLen(Lines') = QLen(Lines) + 1 /\ Newest(Lines') = cleanLine) ]_vars

C3_Witness == QLen(Lines) = LinesCap /\ tpc = "push" /\ epc = "recv"

\* C4: at a poll tick that finds a log B modified later than every other
\* candidate, B not being the open one and opening without error, the tailer
\* switches to B in that tick; and every line it sends comes from the file
\* it switched to last
C4_Rotation ==
  /\ [][ (tpc = "sort" /\ tpc' = "read") =>
           \A B \in logs :
             (B # currentPath /\ StrictlyLatest(B, logs) /\ CanOpen(B)) =>
               (currentPath' = B /\ file' = [path |-> B, closed |-> FALSE]
                /\ gen' = gen + 1) ]_vars
  /\ [](tpc = "push" => (cleanLine.src = currentPath /\ cleanLine.gen = gen))
  /\ [][ QLen(Lines') > QLen(Lines) =>
           (Newest(Lines').src = currentPath /\ Newest(Lines').gen = gen) ]_vars

C4_Witness ==
  /\ gen >= 2 /\ Lines # <<>>
  /\ Newest(Lines).gen = gen /\ Newest(Lines).src = currentPath

\* C5: a switch to a file of size S starts reading at max(0, S - 5000); no line
\* sent from that file starts before this offset; and each read that starts
\* among the complete lines the file held when it was opened takes exactly one
\* line and, unless it is blank, sends it trimmed (as long as the handle is open)
C5_SmartSeek ==
  /\ [][ gen' # gen =>
           LET S == CLen(content[currentPath'])
           IN  /\ rpos' = (IF S > SmartSeek THEN S - SmartSeek ELSE 0)
               /\ openOff' = rpos' /\ openSize' = S ]_vars
  /\ [](/\ rpos >= openOff
        /\ \A i \in 1..Len(Lines) : Lines[i].gen = gen => Lines[i].off >= openOff
        /\ tpc = "push" => cleanLine.off >= openOff)
  /\ [][ (/\ gen' = gen /\ rpos' > rpos /\ ~file.closed
          /\ rpos < LineStart(OpenContent, openSize)) =>
           LET raw == Slice(OpenContent, rpos, rpos')
           IN  /\ rpos' = FindFrom(OpenContent, NL, rpos, 0) + 1
               /\ TrimSpace(raw) # <<>> =>
                    /\ tpc' = "push"
                    /\ cleanLine' = [line |-> TrimSpace(raw), src |-> currentPath,
                                     gen |-> gen, off |-> rpos] ]_vars

C5_Witness ==
  /\ openOff > 0 /\ tpc = "push"
  /\ cleanLine.off > openOff /\ cleanLine.off < openSize

\* C6: a poll tick that finds the open file to be the latest leaves handle and
\* offsets as they are; within one opening the read offset only grows and every
\* line sent starts after the ones sent before; and a file is opened anew only
\* on a switch to another path
C6_NoReRead ==
  /\ [][ (tpc = "sort" /\ tpc' = "read" /\ StrictlyLatest(currentPath, logs)) =>
           UNCHANGED <<currentPath, file, hasReader, rpos, wpos, gen>> ]_vars
  /\ [][ gen' = gen => rpos' >= rpos ]_vars
  /\ [][ gen' # gen => currentPath' # currentPath ]_vars
  /\ [](LET bound == IF tpc = "push" THEN cleanLine.off ELSE rpos
        IN  /\ tpc = "push" => cleanLine.off < rpos
            /\ \A i \in 1..Len(Lines) : Lines[i].gen = gen => LastOff(Lines[i]) < bound
            /\ (got # NoLine /\ got.gen = gen) => got.off < bound)

C6_Witness ==
  /\ tpc = "sort" /\ StrictlyLatest(currentPath, logs)
  /\ rpos > openOff /\ Lines # <<>>

\* C7: once started, the tailer's loop never ends
C7_TailerKeepsRunning == tpc # "idle" => ~crashed

\* C8: discovery lists the eqlog*.txt files of the root, those of Logs only when
\* the root has none, and reports failure when there is none at all; the path it
\* returns is one of them that no other was modified after
C8_Discovery ==
  /\ [](IF Pool = {} THEN ScanLogs = {}
        ELSE /\ LatestOf(ScanLogs) \in Pool
             /\ \A q \in Pool : mtime[q] <= mtime[LatestOf(ScanLogs)])
  /\ [][ (tpc = "check" /\ tpc' = "sort") => logs' = Pool ]_vars
  /\ [][ (tpc = "check" /\ tpc' = "read") => (Pool = {} \/ logs' = logs) ]_vars
  /\ [][ (tpc = "sort" /\ currentPath' # currentPath) =>
           (currentPath' \in logs /\ \A q \in logs : mtime[q] <= mtime[currentPath']) ]_vars

C8_Witness ==
  /\ currentPath = "A" /\ status["B"] = "present" /\ mtime["B"] < mtime["A"]
  /\ status["C"] = "present" /\ mtime["C"] > mtime["A"]

\* the zone-entered lines of the last 50000 bytes of c, by the offsets at which
\* the lines start
WindowStart(c) == IF CLen(c) > ZoneScanWindow THEN CLen(c) - ZoneScanWindow ELSE 0
RECURSIVE NewlinesFrom(_, _)
NewlinesFrom(c, from) ==
  LET nl == FindFrom(c, NL, from, 0)
  IN  IF nl = -1 THEN {} ELSE {nl} \cup NewlinesFrom(c, nl + 1)
WindowLineStarts(c) ==
  {WindowStart(c)} \cup {i + 1 : i \in NewlinesFrom(c, WindowStart(c))}
LineFrom(c, s) ==
  Slice(c, s, IF FindFrom(c, NL, s, 0) = -1 THEN CLen(c) ELSE FindFrom(c, NL, s, 0))
ZoneLines(c) == {s \in WindowLineStarts(c) : ZoneCapture(LineFrom(c, s)) # <<>>}
LastZoneOf(c) ==
  IF ZoneLines(c) = {} THEN <<>>
  ELSE ZoneCapture(LineFrom(c, CHOOSE s \in ZoneLines(c) : \A u \in ZoneLines(c) : u <= s))

\* C9: Start leaves in InitialZone the name of the last zone-entered line of the
\* final 50000 bytes of the most recently modified candidate; with no candidate,
\* a file that does not open or no such line, InitialZone stays unset, and
\* Start goes on to start the tailer
C9_InitialZone ==
  /\ [][ (mpc = "start" /\ mpc' # mpc /\ EQPath /\ Pool = {}) =>
           (mpc' = "go" /\ InitialZone' = <<>> /\ ~crashed') ]_vars
  /\ [][ (mpc = "detect" /\ mpc' # mpc /\ \A q \in logs : status[q] = "present") =>
           /\ mpc' = "go" /\ ~crashed'
           /\ \E p \in logs :
                /\ \A q \in logs : mtime[q] <= mtime[p]
                /\ InitialZone' = IF CanOpen(p) THEN LastZoneOf(content[p]) ELSE <<>> ]_vars
  /\ [][ (mpc = "go" /\ mpc' # mpc) => (mpc' = "started" /\ tpc' = "check") ]_vars

C9_Witness ==
  /\ mpc = "go" /\ InitialZone = << Run(<<"a">>, 1) >>
  /\ logs = {}

\* C10: when the tailer recorded an initial zone, the engine's zone is that zone
\* until the engine has received its first line; and InitialZone is written only
\* while neither the tailer's loop nor the engine's loop has been started
C10_ZoneSeeded ==
  /\ []((epc = "recv" /\ got = NoLine /\ InitialZone # <<>>) => Zone = InitialZone)
  /\ [][ InitialZone' # InitialZone => (tpc = "idle" /\ epc = "idle") ]_vars

C10_Witness ==
  /\ epc = "recv" /\ got = NoLine /\ InitialZone # <<>>
  /\ Lines # <<>> /\ Zone = InitialZone

\* ------------------------------------------------------------------------
\* Properties of the engine (checked under SpecEngine)
\* ------------------------------------------------------------------------
\* the step in which the engine takes the line l off the channel and processes it
Processes(l) == got' # got /\ got'.line = l

\* "Your Location is 10, 20, 3", "Your Location is 0, 0, 0" and
\* "Your Location is -5, -5, 3", written out
Loc10203 == Str(<<LOCATION, "1", "0", COMMA, "2", "0", COMMA, "3">>)
Loc000 == Str(<<LOCATION, "0", COMMA, "0", COMMA, "0">>)
Loc553 == Str(<<LOCATION, MINUS, "5", COMMA, MINUS, "5", COMMA, "3">>)
\* "Your Location is -5.1, -5, -0.25": 0.1 further on one axis than -5, -5
LocJitter == Str(<<LOCATION, MINUS, "5", DOT, "1", COMMA, MINUS, "5", COMMA,
                   MINUS, "0", DOT, "2", "5">>)

\* corpse position and zone
corpseAt == <<CorpseX, CorpseY, CorpseZone>>

\* C11: after a line "Your Location is A, B, C" is processed the stored position
\* is x = -B, y = -A, z = C, whatever was stored before; "Your Location is
\* 10, 20, 3" gives (-20, -10, 3)
C11_PositionStored ==
  /\ [][ \A l \in Locs :
           Processes(LocLine(l[1], l[2], l[3])) =>
             (X' = 0 - l[2] /\ Y' = 0 - l[1] /\ Z' = l[3]) ]_vars
  /\ [][ Processes(Loc10203) => (X' = -2000 /\ Y' = -1000 /\ Z' = 300) ]_vars

C11_Witness ==
  /\ got.line = Loc10203 /\ X = -2000 /\ Y = -1000 /\ Z = 300
  /\ content["A"] = FileOf(<<Loc553, LocJitter, Loc10203>>) /\ Lines = <<>>

\* C12: heading is 0 until a position sample has been processed and the first
\* sample leaves it so; a sample no more than 0.1 away on both axes from the
\* position stored by the sample before leaves heading as it is; and a line
\* that is no position line leaves heading as it is
C12_HeadingStable ==
  /\ [](~hasMoved => Heading = <<0, 1>>)
  /\ [][ \A l \in Locs :
           (Processes(LocLine(l[1], l[2], l[3])) /\ ~hasMoved) => Heading' = Heading ]_vars
  /\ [][ \A l \in Locs :
           (/\ Processes(LocLine(l[1], l[2], l[3])) /\ hasMoved
            /\ (0 - l[2]) - X <= 10 /\ X - (0 - l[2]) <= 10
            /\ (0 - l[1]) - Y <= 10 /\ Y - (0 - l[1]) <= 10) => Heading' = Heading ]_vars
  /\ [][ \A l \in EngineLines \ (LocLines \cup {LocSlainLine}) :
           Processes(l) => Heading' = Heading ]_vars

C12_Witness ==
  /\ content["A"] = FileOf(<<Loc000, Loc553, LocJitter>>) /\ Lines = <<>>
  /\ Heading = <<1, 1>> /\ Y = 510

\* h is the angle of the direction (dy, dx)
PointsAlong(h, dy, dx) ==
  /\ h # <<0, 0>>
  /\ h[1] * dx = h[2] * dy /\ h[1] * dy >= 0 /\ h[2] * dx >= 0

\* C13: a position sample after the first whose displacement (dx, dy) from the
\* position stored by the sample before exceeds 0.1 on an axis sets heading to
\* atan2(dy, dx), also when the sample before left heading as it was; (0, 0)
\* then (5, 5) gives atan2(5, 5)
C13_HeadingSet ==
  /\ [][ \A l \in Locs :
           LET dx == (0 - l[2]) - X
               dy == (0 - l[1]) - Y
           IN  (/\ Processes(LocLine(l[1], l[2], l[3])) /\ hasMoved
                /\ (dx > 10 \/ dx < -10 \/ dy > 10 \/ dy < -10)) =>
                 PointsAlong(Heading', dy, dx) ]_vars
  /\ [][ (got.line = Loc000 /\ Processes(Loc553)) => Heading' = <<1, 1>> ]_vars

C13_Witness ==
  /\ content["A"] = FileOf(<<Loc553, LocJitter, Loc000>>) /\ Lines = <<>>
  /\ Heading = <<-51, -50>>

\* "You have entered an Arena (PvP) area."
ArenaLine == Str(<<ENTERED, "an Arena ", PVP, AREA, DOT>>)

\* C14: a line "You have entered X." whose X contains "(PvP)" or ends with
\* " area" leaves the stored zone as it was
C14_ZoneFiltered ==
  [][ \A l \in StatusLines \cup {ArenaLine} : Processes(l) => Zone' = Zone ]_vars

C14_Witness ==
  /\ content["A"] = FileOf(<<Str(<<ENTERED, "b", DOT>>), ArenaLine>>) /\ Lines = <<>>
  /\ Zone = Str(<<"b">>)

\* C15 as first stated: a line "You have entered X." sets the zone to the text
\* between the phrase and the first period after it
C15_ZoneToFirstPeriod ==
  /\ [][ \A z \in ZoneNames : Processes(Str(<<ENTERED, z, DOT>>)) => Zone' = Str(<<z>>) ]_vars
  /\ [][ Processes(TwoDotLine) => Zone' = Str(<<"a">>) ]_vars

\* C15: a line "You have entered X." that is no status annotation sets the zone
\* to the text between the phrase and the last period of the line ("You have
\* entered a." gives a, "You have entered a.b." gives a.b); when that is the
\* current zone the zone stays as it is
C15_ZoneChange ==
  /\ [][ \A z \in ZoneNames : Processes(Str(<<ENTERED, z, DOT>>)) => Zone' = Str(<<z>>) ]_vars
  /\ [][ Processes(TwoDotLine) => Zone' = Str(<<"a", DOT, "b">>) ]_vars

C15_Witness ==
  /\ content["A"] = FileOf(<<Str(<<ENTERED, "b", DOT>>), TwoDotLine>>) /\ Lines = <<>>
  /\ Zone = Str(<<"a", DOT, "b">>)

\* C16: a line containing "You have been slain" sets the corpse flag and copies
\* the position and the zone stored at that moment into the corpse fields,
\* whether or not the flag was set already
C16_Death ==
  [][ Processes(SlainLine) =>
        /\ HasCorpse' /\ CorpseX' = X /\ CorpseY' = Y /\ CorpseZone' = Zone
        /\ UNCHANGED <<X, Y, Z, Zone>> ]_vars

C16_Witness ==
  /\ content["A"] = FileOf(<<SlainLine, Loc553, SlainLine>>) /\ Lines = <<>>
  /\ HasCorpse /\ CorpseX = 500 /\ CorpseY = 500

\* the lines that are neither death nor recovery lines ("You summon your corpse"
\* is left to C19)
OtherLines ==
  LocLines \cup EnteredLines \cup StatusLines
  \cup {TwoDotLine, ChatLine, LocSlainLine, SlainEnteredLine, SlainStatusLine}

\* C17: position lines, zone lines and every other line that is neither a death
\* nor a recovery line leave corpse position, corpse zone and corpse flag as
\* they are; a recovery line leaves position and zone of the corpse and clears
\* the flag
C17_CorpseLifecycle ==
  /\ [][ \A l \in OtherLines : Processes(l) => UNCHANGED <<corpseAt, HasCorpse>> ]_vars
  /\ [][ \A l \in RecoveryLines : Processes(l) => (UNCHANGED corpseAt /\ ~HasCorpse') ]_vars

C17_Witness ==
  /\ content["A"] = FileOf(<<Loc553, SlainLine, Loc10203>>) /\ Lines = <<>>
  /\ InitialZone = Str(<<"a">>)
  /\ HasCorpse /\ corpseAt = <<500, 500, Str(<<"a">>)>> /\ X = -2000 /\ Y = -1000

\* C18: a line with "Summoning" and "corpse", with "You receive a resurrection",
\* with "You have been resurrected" or with "corpse decays" leaves the corpse
\* flag false
C18_Recovery ==
  /\ [][ Processes(Str(<<SUMMONING, " your ", CORPSE>>)) => ~HasCorpse' ]_vars
  /\ [][ Processes(Str(<<RESURRECTION>>)) => ~HasCorpse' ]_vars
  /\ [][ Processes(Str(<<RESURRECTED>>)) => ~HasCorpse' ]_vars
  /\ [][ Processes(Str(<<"Your ", CORPSE, DECAYS>>)) => ~HasCorpse' ]_vars

C18_Witness ==
  /\ content["A"] = FileOf(<<SlainLine, Str(<<"Your ", CORPSE, DECAYS>>)>>) /\ Lines = <<>>
  /\ ~HasCorpse

\* C19: a line containing "You summon your corpse", processed while the corpse
\* flag is set, leaves the flag false
C19_SummonClears ==
  [][ (Processes(SummonLine) /\ HasCorpse) => ~HasCorpse' ]_vars

\* C20: a line is handled by the first rule it fits, in the order position,
\* zone, death, recovery, and by no later one: a /loc report with "You have been
\* slain" only moves the player, a zone line with it only sets the zone (or,
\* when filtered, nothing), a death line with a recovery phrase only records the
\* death; no line changes more than one of position, zone and corpse
C20_FirstMatchWins ==
  /\ [][ Processes(LocSlainLine) =>
           (X' = -200 /\ Y' = -100 /\ Z' = 300 /\ UNCHANGED <<Zone, corpseAt, HasCorpse>>) ]_vars
  /\ [][ Processes(SlainEnteredLine) =>
           (Zone' = Str(<<"a">>) /\ UNCHANGED <<X, Y, Z, Heading, corpseAt, HasCorpse>>) ]_vars
  /\ [][ Processes(SlainStatusLine) =>
           UNCHANGED <<X, Y, Z, Heading, Zone, corpseAt, HasCorpse>> ]_vars
  /\ [][ Processes(SlainResurrectedLine) =>
           (HasCorpse' /\ corpseAt' = <<X, Y, Zone>> /\ UNCHANGED <<X, Y, Z, Heading, Zone>>) ]_vars
  /\ [][ LET pos == <<X, Y, Z, Heading>>' # <<X, Y, Z, Heading>>
             zone == Zone' # Zone
             corpse == <<corpseAt, HasCorpse>>' # <<corpseAt, HasCorpse>>
         IN  ~(pos /\ zone) /\ ~(pos /\ corpse) /\ ~(zone /\ corpse) ]_vars

C20_Witness ==
  /\ content["A"] = FileOf(<<Str(<<ENTERED, "b", DOT>>), LocSlainLine>>) /\ Lines = <<>>
  /\ ~HasCorpse /\ X = -200 /\ Zone = Str(<<"b">>)


\* ------------------------------------------------------------------------
\* Properties of the zone map loader
\* ------------------------------------------------------------------------
\* the last call was a call of LoadZone, and it gave a ZoneMap
Loaded == ret.fn = "LoadZone" /\ ~ret.err
\* the ZoneMap it gave
TheMap == ret.zm[1]

\* the endings of the four targets, in the order base, _1, _2, _3
TargetSuffixes == << TXT, <<USCORE, "1">> \o TXT, <<USCORE, "2">> \o TXT, <<USCORE, "3">> \o TXT >>

\* the files of the directory that are the k-th target of a zone code, letter
\* case aside
FilesOfTarget(code, k) ==
  {f \in mapFiles : ToLower(f.name) = ToLower(code \o TargetSuffixes[k])}
TargetFiles(code) == UNION {FilesOfTarget(code, k) : k \in 1..4}

\* no two files of the directory have the same name, letter case aside
UniqueNames == \A f, g \in mapFiles : ToLower(f.name) = ToLower(g.name) => f = g

\* what a file gives when it is parsed on its own
Alone(f) == parseFile(NewZoneMap(<<>>), f)

RECURSIVE ConcatFrom(_, _, _)
ConcatFrom(code, k, field) ==
  IF k > 4 THEN <<>>
  ELSE (IF FilesOfTarget(code, k) = {} THEN <<>>
        ELSE LET f == CHOOSE g \in FilesOfTarget(code, k) : TRUE
             IN  IF field = "Lines" THEN Alone(f).zm.Lines ELSE Alone(f).zm.Labels)
       \o ConcatFrom(code, k + 1, field)

OnlyFile(ls) == mapFiles = { [name |-> <<"z">> \o TXT, lines |-> ls, readable |-> TRUE] }
\* the lines of that file
TheLines == IF mapFiles = {} THEN <<>> ELSE (CHOOSE f \in mapFiles : TRUE).lines
\* the directory holds one readable file z.txt, and no line of 64 KB or more
PlainFile == OnlyFile(TheLines) /\ \A k \in 1..Len(TheLines) : TheLines[k] # LongLine

\* the lines of the model with an L and at least 6 fields, and the segment
\* each one stands for: field 0 to field 5, in hundredths
SegLines == {Seg6, SegRed, SegBlack, Seg7, SegLower, SegBad, SegBom, SegWrap}
SegFields(l) ==
  CASE l = SegRed -> <<-500, -1000, 0, 150, 200, 0>>
    [] l = SegBlack -> <<3000, 3000, 0, 4000, 4000, 0>>
    [] l \in {SegLower, SegBom} -> <<100, 200, 300, 400, 500, 600>>
    [] l = SegBad -> <<0, 1000, 0, 1500, 2000, 100>>
    [] OTHER -> <<500, 1000, 0, 1500, 2000, 100>>

\* the lines of ls that are in S, in their order
RECURSIVE Only(_, _)
Only(ls, S) ==
  IF ls = <<>> THEN <<>>
  ELSE (IF Head(ls) \in S THEN <<Head(ls)>> ELSE <<>>) \o Only(Tail(ls), S)

Coords(l) == <<l.X1, l.Y1, l.Z1, l.X2, l.Y2, l.Z2>>

\* C24: an L line with at least 6 fields gives exactly one segment, with
\* X1, Y1, Z1, X2, Y2, Z2 equal to field 0 to field 5 (nothing negated,
\* nothing swapped); an L line with fewer than 6 fields gives nothing, and a
\* line with neither L nor P, in either letter case, is skipped.
C24_Segment ==
  /\ (Loaded /\ PlainFile) =>
        [k \in 1..Len(TheMap.Lines) |-> Coords(TheMap.Lines[k])]
          = [k \in 1..Len(Only(TheLines, SegLines)) |-> SegFields(Only(TheLines, SegLines)[k])]
  /\ (ret.fn = "LoadZone" /\ ret.arg = <<"z">> /\ PlainFile
        /\ \A k \in 1..Len(TheLines) : TheLines[k] \in {Seg5, CommentLine, BlankLine})
       => ret.err

\* C24: the file holds an L line with 5 fields and then one with 9
C24_Witness == Loaded /\ OnlyFile(<<Seg5, SegRed>>) /\ Len(TheMap.Lines) = 1

\* the colour of the segment of a line of the model
SegColor(l) ==
  CASE l \in {SegRed, SegBad} -> <<255, 0, 0, 255>>
    [] l = SegBlack -> <<130, 130, 130, 255>>
    [] OTHER -> <<150, 150, 150, 255>>

\* C25: a segment without the three colour fields is (150, 150, 150); with
\* the three fields all parsing to 0 it is (130, 130, 130) and not black;
\* otherwise it is the parsed (r, g, b), the fields being in 0..255.
C25_Colour ==
  (Loaded /\ PlainFile /\ \A k \in 1..Len(TheLines) : TheLines[k] # SegWrap) =>
    [k \in 1..Len(TheMap.Lines) |-> TheMap.Lines[k].Color]
      = [k \in 1..Len(Only(TheLines, SegLines)) |-> SegColor(Only(TheLines, SegLines)[k])]

\* C25: a segment with the colour 0, 0, 0 and one with 7 fields
C25_Witness == Loaded /\ OnlyFile(<<SegBlack, Seg7>>) /\ Len(TheMap.Lines) = 2

\* C26: a field that is no number counts as 0 and its item is kept, and no
\* line stops the reading of the file: every line that gives an item is in
\* the result, whatever lines come before or after it.
C26_FailSoft ==
  (ret.fn = "LoadZone" /\ ret.arg = <<"z">> /\ OnlyFile(TheLines)) =>
    /\ ret.err <=> Only(TheLines, GoodLines) = <<>>
    /\ ~ret.err => /\ Len(TheMap.Lines) = Len(Only(TheLines, SegLines))
                   /\ Len(TheMap.Labels) = Len(Only(TheLines, {Label8}))

\* the points of a ZoneMap: the end points of its segments, its labels
EndPoints(zm) ==
  {<<zm.Lines[k].X1, zm.Lines[k].Y1>> : k \in 1..Len(zm.Lines)}
  \cup {<<zm.Lines[k].X2, zm.Lines[k].Y2>> : k \in 1..Len(zm.Lines)}
LabelPoints(zm) == {<<zm.Labels[k].X, zm.Labels[k].Y>> : k \in 1..Len(zm.Labels)}
InBox(zm, pt) == zm.MinX <= pt[1] /\ pt[1] <= zm.MaxX /\ zm.MinY <= pt[2] /\ pt[2] <= zm.MaxY

\* C27 as stated: the box of a ZoneMap that LoadZone gives covers every end
\* point of a segment and every label
C27_BoxCoversAll ==
  Loaded => \A pt \in EndPoints(TheMap) \cup LabelPoints(TheMap) : InBox(TheMap, pt)

\* C27: the box of a ZoneMap that LoadZone gives covers every end point of a
\* segment; it starts as the inverted range 99999 .. -99999, which the first
\* segment corrects and which a label leaves as it is.
C27_BoxCoversSegments ==
  Loaded =>
    /\ \A pt \in EndPoints(TheMap) : InBox(TheMap, pt)
    /\ TheMap.Lines = <<>> =>
          /\ TheMap.MinX = BoundsSentinel /\ TheMap.MaxX = 0 - BoundsSentinel
          /\ TheMap.MinY = BoundsSentinel /\ TheMap.MaxY = 0 - BoundsSentinel
    /\ TheMap.Lines # <<>> => TheMap.MinX <= TheMap.MaxX /\ TheMap.MinY <= TheMap.MaxY

\* C27: a map with segments and with a label outside the box
C27_Witness ==
  /\ Loaded /\ TheMap.Lines # <<>>
  /\ \E pt \in LabelPoints(TheMap) : ~InBox(TheMap, pt)

\* what the claim compares of a result
Summary(r) ==
  IF r.err THEN <<"error">>
  ELSE <<Len(r.zm[1].Lines), Len(r.zm[1].Labels), r.zm[1].MinX, r.zm[1].MaxX, r.zm[1].MinY,
         r.zm[1].MaxY>>

CaseVariant(a, b) == Len(a) = Len(b) /\ \A k \in 1..Len(a) : ToLowerCh(a[k]) = ToLowerCh(b[k])

\* the entries of the lookup file for a name, letter case aside
Hits(name) == {i \in 1..Len(zoneCfg.pairs) : CaseVariant(zoneCfg.pairs[i][1], name)}
\* the code of the last of them
LastCode(name) == zoneCfg.pairs[CHOOSE i \in Hits(name) : \A j \in Hits(name) : j <= i][2]

\* no two long names of the lookup file differ in letter case only
UniqueKeys ==
  \A i, j \in 1..Len(zoneCfg.pairs) :
    CaseVariant(zoneCfg.pairs[i][1], zoneCfg.pairs[j][1])
      => zoneCfg.pairs[i][1] = zoneCfg.pairs[j][1]

\* C29: once the table is loaded, the lookup of any letter-case variant of a
\* loaded long name gives that name's file code, and the lookup of a name
\* that was not loaded gives the not-found value; this for GetZoneFileName
\* after LoadZoneConfig and for the map of LoadZoneLookup.  (The long names
\* of the file differ in more than letter case.)
C29_Lookup ==
  /\ (ret.fn = "GetZoneFileName" /\ UniqueKeys) =>
        ret.val = IF ZoneFileMap # {} /\ Hits(ret.arg) # {} THEN LastCode(ret.arg) ELSE <<>>
  /\ (ret.fn = "ZoneLookup" /\ UniqueKeys) =>
        /\ ret.exists <=> (zoneCfg.readable /\ Hits(ret.arg) # {})
        /\ ret.val = IF ret.exists THEN LastCode(ret.arg) ELSE <<>>

\* C29: "AB" is looked up, the table holds "Ab" and another name, and the
\* lookup before it missed
C29_Witness ==
  /\ ret.fn = "GetZoneFileName" /\ UniqueKeys /\ Len(zoneCfg.pairs) = 2
  /\ ret.arg = <<"A", "B">> /\ ret.val # <<>>
  /\ \A i \in 1..2 : zoneCfg.pairs[i][1] # ret.arg
  /\ prev.fn = "GetZoneFileName" /\ prev.val = <<>>


\* ------------------------------------------------------------------------
\* Properties of the window beside the engine (checked under SpecUI)
\* ------------------------------------------------------------------------
\* the fields of PlayerState
PlayerState == <<X, Y, Z, Heading, Zone, CorpseX, CorpseY, CorpseZone, HasCorpse>>

\* C21: single writer: a step that changes a field of PlayerState is a step
\* of the engine's loop (its statements before the loop, or the receipt of a
\* line); no step of the window changes one.
C21_SingleWriter ==
  [][PlayerState' # PlayerState => (epc' # epc \/ Lines' # Lines)]_vars

\* the file code the window asks LoadZone for when the zone is z
FileCodeOf(z) ==
  IF GetZoneFileName(ZoneFileMap, Flat(z)) = <<>> THEN Flat(z)
  ELSE GetZoneFileName(ZoneFileMap, Flat(z))

\* a map without segments and labels that carries the name of zone z
EmptyMapOf(m, z) ==
  m # <<>> /\ m[1].Lines = <<>> /\ m[1].Labels = <<>> /\ m[1].Name \in {Flat(z), FileCodeOf(z)}

\* C30: when the window sees a new zone and LoadZone fails for it, the
\* window holds a map afterwards: the one it held before, unchanged, or an
\* empty one with the name of the new zone.
C30_MapKept ==
  [][(CurrentZone' # CurrentZone /\ LoadZone(mapFiles, FileCodeOf(CurrentZone')).err)
       => /\ MapData' # <<>>
          /\ MapData' = MapData \/ EmptyMapOf(MapData', CurrentZone')]_vars

\* ------------------------------------------------------------------------
\* Further properties of the zone map loader (checked under SpecLoader)
\* ------------------------------------------------------------------------
\* C34: a ZoneMap that LoadZone returns has a bounding box that is not
\* inverted: MinX <= MaxX and MinY <= MaxY.
C34_BoxNotInverted ==
  Loaded => (TheMap.MinX <= TheMap.MaxX /\ TheMap.MinY <= TheMap.MaxY)

\* the colours of the segments and of the labels of a ZoneMap
ColoursOf(zm) ==
  {zm.Lines[k].Color : k \in 1..Len(zm.Lines)} \cup {zm.Labels[k].Color : k \in 1..Len(zm.Labels)}
Black == <<0, 0, 0, 255>>

\* a colour field of the directory is outside 0..255
OutOfRange == \E f \in mapFiles : \E k \in 1..Len(f.lines) : f.lines[k] = SegWrap

\* C35: no segment and no label of a loaded ZoneMap is black, whatever the
\* colour fields hold.
C35_NoBlack == Loaded => Black \notin ColoursOf(TheMap)

\* C35: no segment and no label of a loaded ZoneMap is black when the colour
\* fields of the files are within 0..255.
C35_NoBlackInRange == (Loaded /\ ~OutOfRange) => Black \notin ColoursOf(TheMap)

\* C35: a segment and a label, both with the colour fields 0, 0, 0
C35_Witness ==
  /\ Loaded /\ OnlyFile(<<SegBlack, Label8>>)
  /\ Len(TheMap.Lines) = 1 /\ Len(TheMap.Labels) = 1

\* ------------------------------------------------------------------------
\* Further properties of the tailer (checked under Spec)
\* ------------------------------------------------------------------------
\* a poll tick that finds a latest log other than the open one and cannot
\* open it
FailedSwitch ==
  /\ tpc = "sort" /\ tpc' = "read" /\ ~crashed'
  /\ LatestOf(logs) # currentPath /\ ~CanOpen(LatestOf(logs))

\* C31: a poll tick that finds a newer log and fails to open it leaves the
\* open file, its path, the reader and the reader's position as they were,
\* so that the lines appended to the open file are still delivered.
C31_FailedSwitchKeeps ==
  [][FailedSwitch =>
       (file' = file /\ currentPath' = currentPath /\ hasReader' = hasReader
          /\ rpos' = rpos /\ wpos' = wpos)]_vars

\* C32: the line the tailer is about to push is the trimmed text of one
\* complete line of its file: it starts at offset 0 or just after a newline,
\* and it runs up to the next newline.
C32_WholeLines ==
  tpc = "push" =>
    LET c == content[cleanLine.src]
        s == cleanLine.off
    IN  /\ LineStart(c, s) = s
        /\ FindFrom(c, NL, s, 0) # -1
        /\ cleanLine.line = TrimSpace(Slice(c, s, FindFrom(c, NL, s, 0) + 1))

\* ------------------------------------------------------------------------
\* Further properties of the engine (checked under SpecEngine)
\* ------------------------------------------------------------------------
\* C33: the engine's zone is never a status annotation (a name that contains
\* "(PvP)" or ends with " area"), whether it was seeded from the tailer's
\* initial zone or set by a line.
C33_ZoneNeverStatus == ~IsStatusText(Zone)

\* ------------------------------------------------------------------------
\* Further properties of the window (checked under SpecUI)
\* ------------------------------------------------------------------------
\* C36: the window calls the loader once for each zone change it sees: a
\* load is made in a step that takes the window's zone to the engine's zone,
\* which differed from it, and in no other step; after an Update the
\* window's zone is the engine's, so that later Updates load nothing while
\* the engine's zone stays, whether the load gave a map or not; and nothing
\* is loaded while the engine's zone is empty.
C36_OncePerChange ==
  /\ [][loads' # loads =>
          (loads' = loads + 1 /\ Zone # CurrentZone /\ Zone # <<>> /\ CurrentZone' = Zone)]_vars
  /\ [][CurrentZone' # CurrentZone => loads' = loads + 1]_vars
  /\ [][lastKKey' # lastKKey => CurrentZone' = Zone]_vars
  /\ [](Zone = <<>> => (loads = 0 /\ CurrentZone = <<>>))

\* C36: two zone changes were seen, the second load failed, and an Update
\* with the K key down has been made
C36_Witness ==
  /\ loads = 2 /\ CurrentZone = Zone /\ MapData = <<>> /\ lastKKey
  /\ Lines = <<>> /\ epc = "recv"

\* ------------------------------------------------------------------------
\* C37: every breadcrumb is a pair <<X, Y>> that the engine stored for one
\* position line, or the pair <<0, 0>> the state starts with; no breadcrumb
\* holds the X of one position and the Y of another.
\* ------------------------------------------------------------------------
\* the lines of the log the reader reads
LogLineStarts == {i \in 0..(CLen(content["A"]) - 1) : LineStart(content["A"], i) = i}
\* the captures of the position lines of the log
LogLocs ==
  { LocCapture(LineFrom(content["A"], i), 0) : i \in LogLineStarts } \ { <<>> }
\* the pairs the position rule stores for them, and the pair of the start
StoredPairs ==
  {<<0, 0>>} \cup { <<Neg(ParseFloat(loc[2])), Neg(ParseFloat(loc[1]))>> : loc \in LogLocs }

C37_WholePairs == \A k \in 1..Len(Breadcrumbs) : Breadcrumbs[k] \in StoredPairs


\* ------------------------------------------------------------------------
\* C38: a run of the cleanup tool deletes no file that LoadZone would read
\* for a code of the key file: every entry whose name, lower-cased, is
\* code.txt, code_1.txt, code_2.txt or code_3.txt is still there, and LoadZone
\* gives for the code what it gave before; directories, map_keys.json,
\* map_keys.ini and entries whose extension is not .txt are still there as
\* well, and no entry is added.
\* ------------------------------------------------------------------------
\* the codes of the key file
KeyCodes == IF zoneCfg.readable /\ zoneCfg.valid THEN {p[2] : p \in RawMap(zoneCfg.pairs)} ELSE {}
TargetNames(code) == {Targets(code)[k] : k \in 1..Len(Targets(code))}
CleanupRan == ret.fn = "cleanup"

C38_CleanupKeeps ==
  CleanupRan =>
    /\ mapFiles \subseteq ret.before
    /\ \A f \in ret.before :
         (f.isDir \/ f.name \in {KeysJson, KeysIni} \/ Ext(f.name) # TXT) => f \in mapFiles
    /\ \A code \in KeyCodes :
         /\ \A f \in ret.before : ToLower(f.name) \in TargetNames(code) => f \in mapFiles
         /\ LoadZone(mapFiles, code) = LoadZone(ret.before, code)

\* C38: a run with the code "Z" has deleted "zb.txt" and kept "Z_2.txt" and
\* "Z.TXT", from which LoadZone builds the map of "Z"
C38_Witness ==
  /\ CleanupRan /\ ~ret.panicked /\ ret.deletedCount = 1 /\ ret.keptCount = 1
  /\ <<"Z">> \in KeyCodes
  /\ {f.name : f \in ret.before} =
       {KeysJson, <<"z", "b">> \o TXT, <<"Z", USCORE, "2">> \o TXT, <<"Z", ".", "T", "X", "T">>}
  /\ {f.name : f \in mapFiles} =
       {KeysJson, <<"Z", USCORE, "2">> \o TXT, <<"Z", ".", "T", "X", "T">>}
  /\ ~LoadZone(mapFiles, <<"Z">>).err

====
